---- MODULE Spec2Model ----
(***************************************************************************)
(* Model of the ToDo REST API: the Todo entity (domain/entities/todo.py),  *)
(* the SQLAlchemy repository (infra/db) and the use-case layer             *)
(* (usecases/todo_service.py).                                             *)
(*                                                                         *)
(* Representation.  A Python str is a sequence of one-character strings.   *)
(* An Optional[T] value is None == <<>> or Some(v) == <<v>>.  A datetime   *)
(* is an integer number of clock ticks.  Keyword arguments are a record    *)
(* whose DOMAIN is the set of keyword names that were passed.              *)
(***************************************************************************)
EXTENDS Integers, Sequences, FiniteSets, TLC

(***************************************************************************)
(* Bounds of the model.                                                    *)
(***************************************************************************)
MaxId == 2
MaxClock == 2
MaxBulk == 2
MaxTagListLen == 2

(***************************************************************************)
(* Limits fixed by the program.                                            *)
(***************************************************************************)
MaxTitleLen == 200
MaxDescriptionLen == 2000
MaxPriority == 5
MaxTagLen == 30
MaxTags == 20

None == <<>>
Some(v) == <<v>>

Range(s) == {s[i] : i \in DOMAIN s}

Rep(c, n) == [i \in 1..n |-> c]

Min(a, b) == IF a <= b THEN a ELSE b

Max(S) == CHOOSE x \in S : \A y \in S : y <= x

(***************************************************************************)
(* str.strip() and str.lower().                                            *)
(***************************************************************************)
Whitespace == {" ", "\t"}

\* the first position from i on, and the last position up to i, that holds
\* no whitespace
RECURSIVE first_kept(_, _)
first_kept(s, i) ==
    IF i > Len(s) \/ s[i] \notin Whitespace THEN i ELSE first_kept(s, i + 1)

RECURSIVE last_kept(_, _)
last_kept(s, i) ==
    IF i < 1 \/ s[i] \notin Whitespace THEN i ELSE last_kept(s, i - 1)

strip(s) ==
    IF first_kept(s, 1) > Len(s) THEN <<>>
    ELSE SubSeq(s, first_kept(s, 1), last_kept(s, Len(s)))

lowerChar(c) ==
    CASE c = "A" -> "a"
      [] c = "B" -> "b"
      [] c = "U" -> "u"
      [] c = "W" -> "w"
      [] c = "X" -> "x"
      [] OTHER -> c

lower(s) == [i \in DOMAIN s |-> lowerChar(s[i])]

(***************************************************************************)
(* Outcome of constructing a Todo: the normalized instance, or the         *)
(* ValueError that __post_init__ raised.                                   *)
(***************************************************************************)
Ok(todo) == [ok |-> TRUE, todo |-> todo, err |-> ""]
Raise(todo, msg) == [ok |-> FALSE, todo |-> todo, err |-> msg]

\* the messages of the ValueErrors that _validate_and_normalize raises
Err ==
    [TitleRequired |-> "title is required and cannot be empty",
     TitleTooLong |-> "title must be 200 characters or less",
     DescriptionTooLong |-> "description must be 2000 characters or less",
     Priority |-> "priority must be an integer between 0 and 5",
     TagTooLong |-> "tag must be 30 characters or less",
     TooManyTags |-> "maximum 20 tags allowed",
     DueDate |-> "due_date cannot be before created_at"]

\* the tag loop comparing the trimmed tag, not the lower-cased one, with the
\* tags kept so far
RECURSIVE normalize_tags_case_sensitive(_, _, _)
normalize_tags_case_sensitive(tags, i, acc) ==
    IF i > Len(tags) THEN [ok |-> TRUE, tags |-> acc]
    ELSE LET tag == tags[i]
             normalized_tag == lower(strip(tag))
         IN  IF tag = <<>> \/ strip(tag) = <<>>
               THEN normalize_tags_case_sensitive(tags, i + 1, acc)
             ELSE IF Len(normalized_tag) > MaxTagLen
               THEN [ok |-> FALSE, tags |-> acc]
             ELSE IF strip(tag) \notin Range(acc)
               THEN normalize_tags_case_sensitive(tags, i + 1,
                                                  Append(acc, normalized_tag))
             ELSE normalize_tags_case_sensitive(tags, i + 1, acc)

(***************************************************************************)
(* The tag loop of _validate_and_normalize: acc is normalized_tags after   *)
(* the first i-1 tags; the result is [ok, tags].                           *)
(***************************************************************************)
RECURSIVE normalize_tags(_, _, _)
normalize_tags(tags, i, acc) ==
    IF i > Len(tags) THEN [ok |-> TRUE, tags |-> acc]
    ELSE LET tag == tags[i]
             normalized_tag == lower(strip(tag))
         IN  IF tag = <<>> \/ strip(tag) = <<>>
               THEN normalize_tags(tags, i + 1, acc)
             ELSE IF Len(normalized_tag) > MaxTagLen
               THEN [ok |-> FALSE, tags |-> acc]
             ELSE IF normalized_tag \notin Range(acc)
               THEN normalize_tags(tags, i + 1, Append(acc, normalized_tag))
             ELSE normalize_tags(tags, i + 1, acc)

\* _validate_and_normalize measuring the title before it is trimmed
validate_and_normalize_untrimmed_length(self) ==
    LET title == strip(self.title)
        nt == IF self.tags # <<>> THEN normalize_tags(self.tags, 1, <<>>)
              ELSE [ok |-> TRUE, tags |-> <<>>]
        normalized == [self EXCEPT !.title = title, !.tags = nt.tags]
    IN  IF self.title = <<>> \/ strip(self.title) = <<>>
          THEN Raise(self, Err.TitleRequired)
        ELSE IF Len(self.title) > MaxTitleLen
          THEN Raise(self, Err.TitleTooLong)
        ELSE IF self.description # None /\ self.description[1] # <<>>
                /\ Len(self.description[1]) > MaxDescriptionLen
          THEN Raise(self, Err.DescriptionTooLong)
        ELSE IF self.priority < 0 \/ self.priority > MaxPriority
          THEN Raise(self, Err.Priority)
        ELSE IF ~nt.ok
          THEN Raise(self, Err.TagTooLong)
        ELSE IF Len(nt.tags) > MaxTags
          THEN Raise(self, Err.TooManyTags)
        ELSE IF self.due_date # None /\ self.created_at # None
                /\ self.id # None
                /\ self.due_date[1] < self.created_at[1]
          THEN Raise(self, Err.DueDate)
        ELSE Ok(normalized)

validate_and_normalize(self) ==
    LET title == strip(self.title)
        nt == IF self.tags # <<>> THEN normalize_tags(self.tags, 1, <<>>)
              ELSE [ok |-> TRUE, tags |-> <<>>]
        normalized == [self EXCEPT !.title = title, !.tags = nt.tags]
    IN  IF self.title = <<>> \/ strip(self.title) = <<>>
          THEN Raise(self, Err.TitleRequired)
        ELSE IF Len(title) > MaxTitleLen
          THEN Raise(self, Err.TitleTooLong)
        ELSE IF self.description # None /\ self.description[1] # <<>>
                /\ Len(self.description[1]) > MaxDescriptionLen
          THEN Raise(self, Err.DescriptionTooLong)
        ELSE IF self.priority < 0 \/ self.priority > MaxPriority
          THEN Raise(self, Err.Priority)
        ELSE IF ~nt.ok
          THEN Raise(self, Err.TagTooLong)
        ELSE IF Len(nt.tags) > MaxTags
          THEN Raise(self, Err.TooManyTags)
        ELSE IF self.due_date # None /\ self.created_at # None
                /\ self.id # None
                /\ self.due_date[1] < self.created_at[1]
          THEN Raise(self, Err.DueDate)
        ELSE Ok(normalized)

(***************************************************************************)
(* Todo(...): the dataclass constructor followed by __post_init__.         *)
(***************************************************************************)
Todo(id, title, description, is_done, priority, due_date, tags, created_at, updated_at) ==
    validate_and_normalize(
        [id |-> id, title |-> title, description |-> description,
         is_done |-> is_done, priority |-> priority, due_date |-> due_date,
         tags |-> tags, created_at |-> created_at,
         updated_at |-> updated_at])

(***************************************************************************)
(* Todo.update with its keyword arguments; utcnow is the value that        *)
(* datetime.utcnow() returns.                                              *)
(***************************************************************************)
kwargs_get(kwargs, key, default) ==
    IF key \in DOMAIN kwargs THEN kwargs[key] ELSE default

Todo_update(self, kwargs, utcnow) ==
    Todo(self.id,
         kwargs_get(kwargs, "title", self.title),
         kwargs_get(kwargs, "description", self.description),
         kwargs_get(kwargs, "is_done", self.is_done),
         kwargs_get(kwargs, "priority", self.priority),
         kwargs_get(kwargs, "due_date", self.due_date),
         kwargs_get(kwargs, "tags", self.tags),
         self.created_at,
         kwargs_get(kwargs, "updated_at", Some(utcnow)))

mark_as_done(self, utcnow) ==
    Todo_update(self, [is_done |-> TRUE, updated_at |-> Some(utcnow)], utcnow)

\* mark_as_undone passing no is_done on
mark_as_undone_keeps_flag(self, utcnow) ==
    Todo_update(self, [updated_at |-> Some(utcnow)], utcnow)

mark_as_undone(self, utcnow) ==
    Todo_update(self, [is_done |-> FALSE, updated_at |-> Some(utcnow)], utcnow)

\* add_tag appending to self.tags itself, not to a copy of it
add_tag_lists_in_place(self, tag) ==
    LET normalized_tag == lower(strip(tag))
        appended == IF normalized_tag # <<>>
                       /\ normalized_tag \notin Range(self.tags)
                    THEN Append(self.tags, normalized_tag)
                    ELSE self.tags
    IN  [self_tags |-> appended, new_tags |-> appended]

\* the two lists of add_tag after
\*   new_tags = self.tags.copy()
\*   if normalized_tag and normalized_tag not in new_tags:
\*       new_tags.append(normalized_tag)
\* self_tags is the list the receiver holds, new_tags the local list
add_tag_lists(self, tag) ==
    LET normalized_tag == lower(strip(tag))
    IN  [self_tags |-> self.tags,
         new_tags |-> IF normalized_tag # <<>>
                         /\ normalized_tag \notin Range(self.tags)
                      THEN Append(self.tags, normalized_tag)
                      ELSE self.tags]

add_tag(self, tag, utcnow) ==
    Todo_update(self, [tags |-> add_tag_lists(self, tag).new_tags,
                       updated_at |-> Some(utcnow)], utcnow)

\* list.remove deleting the last element, where it deletes the first
\* occurrence of x
list_remove_last(s, x) == SubSeq(s, 1, Len(s) - 1)

\* list.remove deletes the first occurrence
list_remove(s, x) ==
    LET k == CHOOSE i \in DOMAIN s : s[i] = x /\ \A j \in 1..(i - 1) : s[j] # x
    IN  SubSeq(s, 1, k - 1) \o SubSeq(s, k + 1, Len(s))

\* the two lists of remove_tag after
\*   new_tags = self.tags.copy()
\*   if normalized_tag in new_tags:
\*       new_tags.remove(normalized_tag)
remove_tag_lists(self, tag) ==
    LET normalized_tag == lower(strip(tag))
    IN  [self_tags |-> self.tags,
         new_tags |-> IF normalized_tag \in Range(self.tags)
                      THEN list_remove(self.tags, normalized_tag)
                      ELSE self.tags]

remove_tag(self, tag, utcnow) ==
    Todo_update(self, [tags |-> remove_tag_lists(self, tag).new_tags,
                       updated_at |-> Some(utcnow)], utcnow)

\* Todo.create leaving priority at its default instead of passing it on
Todo_create_default_priority(title, description, priority, due_date, tags, utcnow) ==
    Todo(None, title, description, FALSE, 0, due_date,
         IF tags = None THEN <<>> ELSE tags[1],
         Some(utcnow), Some(utcnow))

\* Todo.create: tags is Optional[List[str]] and "tags or []" replaces None
Todo_create(title, description, priority, due_date, tags, utcnow) ==
    Todo(None, title, description, FALSE, priority, due_date,
         IF tags = None THEN <<>> ELSE tags[1],
         Some(utcnow), Some(utcnow))

(***************************************************************************)
(* State.                                                                  *)
(*   store  the todos table: a function from the ids of the stored rows    *)
(*          to the rows (TodoModel)                                        *)
(*   now    the last value datetime.utcnow() returned                      *)
(*   pc, cur, held, res                                                    *)
(*          per request in flight: its position, the service call it runs  *)
(*          (operation, arguments and the locals of bulk_mark_as_done),    *)
(*          the entity get_by_id returned to it, and what the call         *)
(*          returned or raised                                             *)
(*   ent, eop, out                                                         *)
(*          a Todo instance, the entity operation last applied to it with  *)
(*          its arguments, and the outcome of that operation               *)
(***************************************************************************)
VARIABLES store, now, pc, cur, held, res, ent, eop, out

vars == <<store, now, pc, cur, held, res, ent, eop, out>>
svcVars == <<store, pc, cur, held, res>>
entVars == <<ent, eop, out>>

\* the request whose calls are observed, and a request of another client
\* that runs between its repository calls
Requests == {"caller", "other"}
Ids == 1..MaxId
\* MaxId + 1 is an id that is never stored
AllIds == 1..(MaxId + 1)

\* successive readings of the clock never go backwards
Ticks(t) == t..Min(t + 1, MaxClock)

NoTodo ==
    [id |-> None, title |-> <<>>, description |-> None, is_done |-> FALSE,
     priority |-> 0, due_date |-> None, tags |-> <<>>, created_at |-> None,
     updated_at |-> None]

(***************************************************************************)
(* TodoModel <-> Todo (infra/db/models.py).                                *)
(***************************************************************************)
\* to_entity reading created_at from the updated_at column
to_entity_created_at_from_updated_at(self) ==
    Todo(self.id, self.title, self.description, self.is_done, self.priority,
         self.due_date, self.tags, self.updated_at, self.updated_at)

to_entity(self) ==
    Todo(self.id, self.title, self.description, self.is_done, self.priority,
         self.due_date, self.tags, self.created_at, self.updated_at)

from_entity(todo) ==
    [id |-> todo.id, title |-> todo.title, description |-> todo.description,
     is_done |-> todo.is_done, priority |-> todo.priority,
     due_date |-> todo.due_date, tags |-> todo.tags,
     created_at |-> todo.created_at, updated_at |-> todo.updated_at]

\* update_from_entity without the assignment of description
update_from_entity_no_description(self, todo, utcnow) ==
    [self EXCEPT !.title = todo.title,
                 !.is_done = todo.is_done,
                 !.priority = todo.priority,
                 !.due_date = todo.due_date,
                 !.tags = todo.tags,
                 !.updated_at = IF todo.updated_at # None THEN todo.updated_at
                                ELSE Some(utcnow)]

update_from_entity(self, todo, utcnow) ==
    [self EXCEPT !.title = todo.title,
                 !.description = todo.description,
                 !.is_done = todo.is_done,
                 !.priority = todo.priority,
                 !.due_date = todo.due_date,
                 !.tags = todo.tags,
                 !.updated_at = IF todo.updated_at # None THEN todo.updated_at
                                ELSE Some(utcnow)]

(***************************************************************************)
(* Strings as SQLite and the search code see them.                         *)
(***************************************************************************)
\* the characters of the model in code point order, which is the order of
\* SQLite's BINARY collation
CodePoints ==
    <<"\t", " ", "\"", "%", ",", "-", "A", "B", "U", "W", "X", "[", "]", "_",
      "a", "b", "c", "d", "e", "f", "g", "i", "m", "n", "o", "p", "r", "s", "t",
      "u", "w", "x", "y">>

ord(c) == CHOOSE i \in DOMAIN CodePoints : CodePoints[i] = c

\* str.split(sep): the pieces of s between the occurrences of sep
RECURSIVE split(_, _)
split(s, sep) ==
    IF \A i \in DOMAIN s : s[i] # sep THEN <<s>>
    ELSE LET k == CHOOSE i \in DOMAIN s :
                      s[i] = sep /\ \A j \in 1..(i - 1) : s[j] # sep
         IN  <<SubSeq(s, 1, k - 1)>> \o split(SubSeq(s, k + 1, Len(s)), sep)

\* x LIKE pattern in SQLite: % stands for any run of characters, _ for any
\* one character, and letters match without regard to case
RECURSIVE like(_, _)
like(x, pattern) ==
    IF pattern = <<>> THEN x = <<>>
    ELSE IF Head(pattern) = "%"
      THEN \/ like(x, Tail(pattern))
           \/ (x # <<>> /\ like(Tail(x), pattern))
    ELSE /\ x # <<>>
         /\ (Head(pattern) = "_"
               \/ lowerChar(Head(pattern)) = lowerChar(Head(x)))
         /\ like(Tail(x), Tail(pattern))

\* column.ilike(pattern): lower(column) LIKE lower(pattern); NULL matches
\* nothing
ilike(column, pattern) ==
    column # None /\ like(lower(column[1]), lower(pattern))

\* the text of the JSON array stored in the tags column, as json_extract
\* returns it
RECURSIVE json_items(_)
json_items(tags) ==
    IF tags = <<>> THEN <<>>
    ELSE <<"\"">> \o Head(tags) \o <<"\"">>
         \o (IF Len(tags) > 1 THEN <<",">> ELSE <<>>) \o json_items(Tail(tags))

json_extract(tags) == <<"[">> \o json_items(tags) \o <<"]">>

(***************************************************************************)
(* TodoSearchParams and TodoSearchResult (domain/repositories).            *)
(***************************************************************************)
DefaultPage == 1
DefaultPageSize == 20
MaxPageSize == 100

\* the names of the columns of TodoModel
col ==
    [id |-> <<"i", "d">>,
     title |-> <<"t", "i", "t", "l", "e">>,
     description |-> <<"d", "e", "s", "c", "r", "i", "p", "t", "i", "o", "n">>,
     is_done |-> <<"i", "s", "_", "d", "o", "n", "e">>,
     priority |-> <<"p", "r", "i", "o", "r", "i", "t", "y">>,
     due_date |-> <<"d", "u", "e", "_", "d", "a", "t", "e">>,
     tags |-> <<"t", "a", "g", "s">>,
     created_at |-> <<"c", "r", "e", "a", "t", "e", "d", "_", "a", "t">>,
     updated_at |-> <<"u", "p", "d", "a", "t", "e", "d", "_", "a", "t">>]

\* the arguments of search_todos left at their defaults
NoParams ==
    [page |-> DefaultPage, page_size |-> DefaultPageSize, sort |-> None,
     is_done |-> None, q |-> None, tags |-> None, due_before |-> None,
     due_after |-> None]

\* TodoSearchParams.__init__ keeping page and page_size as they are given
TodoSearchParams_as_given(page, page_size, sort, is_done, q, tags, due_before, due_after) ==
    [page |-> page,
     page_size |-> page_size,
     sort |-> sort,
     is_done |-> is_done,
     q |-> q,
     tags |-> IF tags = None \/ tags[1] = <<>> THEN <<>> ELSE tags[1],
     due_before |-> due_before,
     due_after |-> due_after]

\* TodoSearchParams.__init__
TodoSearchParams(page, page_size, sort, is_done, q, tags, due_before, due_after) ==
    [page |-> Max({1, page}),
     page_size |-> Min(Max({1, page_size}), MaxPageSize),
     sort |-> sort,
     is_done |-> is_done,
     q |-> q,
     tags |-> IF tags = None \/ tags[1] = <<>> THEN <<>> ELSE tags[1],
     due_before |-> due_before,
     due_after |-> due_after]

offset(self) == (self.page - 1) * self.page_size

\* get_sort_fields reading every field as ascending
get_sort_fields_ascending(self) ==
    IF self.sort = None \/ self.sort[1] = <<>>
      THEN <<[name |-> col.created_at, direction |-> "desc"]>>
    ELSE LET parts == split(self.sort[1], ",")
         IN  [i \in DOMAIN parts |->
                 LET field == strip(parts[i])
                 IN  IF field # <<>> /\ Head(field) = "-"
                       THEN [name |-> Tail(field), direction |-> "asc"]
                     ELSE [name |-> field, direction |-> "asc"]]

get_sort_fields(self) ==
    IF self.sort = None \/ self.sort[1] = <<>>
      THEN <<[name |-> col.created_at, direction |-> "desc"]>>
    ELSE LET parts == split(self.sort[1], ",")
         IN  [i \in DOMAIN parts |->
                 LET field == strip(parts[i])
                 IN  IF field # <<>> /\ Head(field) = "-"
                       THEN [name |-> Tail(field), direction |-> "desc"]
                     ELSE [name |-> field, direction |-> "asc"]]

(***************************************************************************)
(* What a call returns or raises.                                          *)
(***************************************************************************)
Result(kind) ==
    [kind |-> kind, todo |-> NoTodo, exc |-> "", msg |-> "", flag |-> FALSE,
     updated |-> 0, failed_ids |-> <<>>, items |-> <<>>, total_items |-> 0,
     page |-> 0, page_size |-> 0, status |-> 0, body |-> <<>>]

NoResult == Result("pending")
ReturnNone == Result("none")
ReturnTodo(todo) == [Result("todo") EXCEPT !.todo = todo]
ReturnBool(b) == [Result("bool") EXCEPT !.flag = b]
ReturnBulk(n, failed) ==
    [Result("bulk") EXCEPT !.updated = n, !.failed_ids = failed]
\* an int, as the count aggregates return it
ReturnCount(n) == [Result("count") EXCEPT !.total_items = n]
RaiseValueError(msg) == [Result("raise") EXCEPT !.exc = "ValueError", !.msg = msg]

\* TodoSearchResult(items, total_items, page, page_size)
TodoSearchResult(items, total_items, page, page_size) ==
    [Result("search") EXCEPT !.items = items, !.total_items = total_items,
                             !.page = page, !.page_size = page_size]
\* total_pages dividing without rounding up
total_pages_rounded_down(self) ==
    IF self.page_size = 0 THEN 0 ELSE self.total_items \div self.page_size

\* TodoSearchResult.total_pages
total_pages(self) ==
    IF self.page_size = 0 THEN 0
    ELSE (self.total_items + self.page_size - 1) \div self.page_size

\* sqlalchemy.exc.ArgumentError out of asc() or desc()
RaiseArgumentError(msg) ==
    [Result("raise") EXCEPT !.exc = "ArgumentError", !.msg = msg]

\* the messages of the errors raised in the repository
RepoErr ==
    [IdNotNone |-> "ID should be None for new todos",
     IdRequired |-> "Todo ID is required for update",
     NotFound |-> "Todo with ID not found",
     OrderBy |-> "ORDER BY expression expected"]

\* a constructed entity is returned, a failed construction propagates
ReturnEntity(made) ==
    IF made.ok THEN ReturnTodo(made.todo) ELSE RaiseValueError(made.err)

(***************************************************************************)
(* SqlAlchemyTodoRepository.  Each repository call is one transaction: it  *)
(* maps the table st to [store |-> the table after, result |-> ...].       *)
(***************************************************************************)
\* the id an INSERT assigns: the table is an SQLite rowid table, so the new
\* id is one more than the largest id in the table
new_id(st) == IF DOMAIN st = {} THEN 1 ELSE Max(DOMAIN st) + 1

\* repository.create returning the entity it was given, not the stored row
created_entity_not_refreshed(todo_with_timestamp, todo_model) ==
    Ok(todo_with_timestamp)

\* the value repository.create returns for the inserted row todo_model
created_entity(todo_with_timestamp, todo_model) == to_entity(todo_model)

Repo_create(st, todo, utcnow) ==
    IF todo.id # None
      THEN [store |-> st, result |-> RaiseValueError(RepoErr.IdNotNone)]
    ELSE
      LET todo_with_timestamp ==
              Todo_update(todo, [created_at |-> Some(utcnow),
                                 updated_at |-> Some(utcnow)], utcnow)
      IN  IF ~todo_with_timestamp.ok
            THEN [store |-> st,
                  result |-> RaiseValueError(todo_with_timestamp.err)]
          ELSE
            LET todo_model ==
                    [from_entity(todo_with_timestamp.todo)
                        EXCEPT !.id = Some(new_id(st))]
            IN  [store |-> (new_id(st) :> todo_model) @@ st,
                 result |-> ReturnEntity(
                     created_entity(todo_with_timestamp.todo, todo_model))]

\* get_by_id raising for a missing row, where the code returns None
get_by_id_raising(st, todo_id) ==
    IF todo_id \notin DOMAIN st THEN RaiseValueError(RepoErr.NotFound)
    ELSE ReturnEntity(to_entity(st[todo_id]))

get_by_id(st, todo_id) ==
    IF todo_id \notin DOMAIN st THEN ReturnNone
    ELSE ReturnEntity(to_entity(st[todo_id]))

\* update stamping updated_at on every row of the table
Repo_update_every_row(st, todo, utcnow) ==
    IF todo.id = None
      THEN [store |-> st, result |-> RaiseValueError(RepoErr.IdRequired)]
    ELSE IF todo.id[1] \notin DOMAIN st
      THEN [store |-> st, result |-> RaiseValueError(RepoErr.NotFound)]
    ELSE
      LET updated_todo == Todo_update(todo, [updated_at |-> Some(utcnow)],
                                      utcnow)
      IN  IF ~updated_todo.ok
            THEN [store |-> st, result |-> RaiseValueError(updated_todo.err)]
          ELSE
            LET todo_model == update_from_entity(st[todo.id[1]],
                                                 updated_todo.todo, utcnow)
            IN  [store |-> [i \in DOMAIN st |->
                              IF i = todo.id[1] THEN todo_model
                              ELSE [st[i] EXCEPT
                                      !.updated_at = todo_model.updated_at]],
                 result |-> ReturnEntity(to_entity(todo_model))]

Repo_update(st, todo, utcnow) ==
    IF todo.id = None
      THEN [store |-> st, result |-> RaiseValueError(RepoErr.IdRequired)]
    ELSE IF todo.id[1] \notin DOMAIN st
      THEN [store |-> st, result |-> RaiseValueError(RepoErr.NotFound)]
    ELSE
      LET updated_todo == Todo_update(todo, [updated_at |-> Some(utcnow)],
                                      utcnow)
      IN  IF ~updated_todo.ok
            THEN [store |-> st, result |-> RaiseValueError(updated_todo.err)]
          ELSE
            LET todo_model == update_from_entity(st[todo.id[1]],
                                                 updated_todo.todo, utcnow)
            IN  [store |-> [st EXCEPT ![todo.id[1]] = todo_model],
                 result |-> ReturnEntity(to_entity(todo_model))]

\* delete emptying the table
Repo_delete_every_row(st, todo_id) ==
    IF todo_id \notin DOMAIN st
      THEN [store |-> st, result |-> ReturnBool(FALSE)]
    ELSE [store |-> <<>>, result |-> ReturnBool(TRUE)]

Repo_delete(st, todo_id) ==
    IF todo_id \notin DOMAIN st
      THEN [store |-> st, result |-> ReturnBool(FALSE)]
    ELSE [store |-> [i \in DOMAIN st \ {todo_id} |-> st[i]],
          result |-> ReturnBool(TRUE)]

(***************************************************************************)
(* SqlAlchemyTodoRepository.search.                                        *)
(***************************************************************************)
Columns ==
    {col.id, col.title, col.description, col.is_done, col.priority,
     col.due_date, col.tags, col.created_at, col.updated_at}

\* attributes of the class TodoModel that are no columns: its methods and
\* the metadata of the declarative base
attr ==
    [to_entity |-> <<"t", "o", "_", "e", "n", "t", "i", "t", "y">>,
     from_entity |-> <<"f", "r", "o", "m", "_", "e", "n", "t", "i", "t", "y">>,
     update_from_entity |-> <<"u", "p", "d", "a", "t", "e", "_", "f", "r", "o", "m", "_", "e", "n", "t", "i", "t", "y">>,
     metadata |-> <<"m", "e", "t", "a", "d", "a", "t", "a">>]

NonColumnAttributes ==
    {attr.to_entity, attr.from_entity, attr.update_from_entity, attr.metadata}

\* hasattr(TodoModel, field_name)
hasattr_TodoModel(field_name) ==
    field_name \in Columns \cup NonColumnAttributes


\* and_(*conditions) for one row of the table
conditions(row, params) ==
    /\ params.is_done # None => row.is_done = params.is_done[1]
    /\ (params.q # None /\ params.q[1] # <<>>) =>
          LET search_term == <<"%">> \o params.q[1] \o <<"%">>
          IN  \/ ilike(Some(row.title), search_term)
              \/ ilike(row.description, search_term)
    /\ \A i \in DOMAIN params.tags :
          like(json_extract(row.tags),
               <<"%", "\"">> \o lower(params.tags[i]) \o <<"\"", "%">>)
    /\ params.due_before # None =>
          (row.due_date # None /\ row.due_date[1] <= params.due_before[1])
    /\ params.due_after # None =>
          (row.due_date # None /\ row.due_date[1] >= params.due_after[1])

\* the rows the WHERE clause selects, and what count_query returns
selected(st, params) == {i \in DOMAIN st : conditions(st[i], params)}

count_query(st, params) == Cardinality(selected(st, params))

\* the value of a column as a sequence of numbers that compares like the
\* column does in ORDER BY: NULL before every value, false before true,
\* text by code points
text_key(x) == [i \in DOMAIN x |-> ord(x[i])]

sort_key(row, name) ==
    CASE name = col.id -> row.id
      [] name = col.title -> text_key(row.title)
      [] name = col.description ->
           IF row.description = None THEN <<0>>
           ELSE <<1>> \o text_key(row.description[1])
      [] name = col.is_done -> <<IF row.is_done THEN 1 ELSE 0>>
      [] name = col.priority -> <<row.priority>>
      [] name = col.due_date ->
           IF row.due_date = None THEN <<0>> ELSE <<1>> \o row.due_date
      [] name = col.tags -> text_key(json_extract(row.tags))
      [] name = col.created_at -> row.created_at
      [] name = col.updated_at -> row.updated_at

RECURSIVE key_less(_, _)
key_less(a, b) ==
    IF b = <<>> THEN FALSE
    ELSE IF a = <<>> THEN TRUE
    ELSE IF Head(a) # Head(b) THEN Head(a) < Head(b)
    ELSE key_less(Tail(a), Tail(b))

\* ORDER BY order_by puts row a before row b
RECURSIVE order_before(_, _, _)
order_before(a, b, order_by) ==
    IF order_by = <<>> THEN FALSE
    ELSE LET ka == sort_key(a, Head(order_by).name)
             kb == sort_key(b, Head(order_by).name)
         IN  IF ka = kb THEN order_before(a, b, Tail(order_by))
             ELSE IF Head(order_by).direction = "desc" THEN key_less(kb, ka)
             ELSE key_less(ka, kb)

\* the order in which SQLite returns the selected rows: the order that
\* ORDER BY asks for, and the rows that ORDER BY does not tell apart, which
\* are all rows when there is no ORDER BY, by ascending id: the table has no
\* index but its rowid, it is scanned in rowid order, and the sorter keeps
\* rows with equal keys in the order of the scan
orderings(st, ids, order_by) ==
    LET before(a, b) ==
            \/ order_before(st[a], st[b], order_by)
            \/ (~order_before(st[b], st[a], order_by) /\ a < b)
    IN  {[k \in 1..Cardinality(ids) |->
            CHOOSE i \in ids :
                Cardinality({j \in ids : before(j, i)}) = k - 1]}

\* OFFSET params.offset LIMIT params.page_size
offset_limit(o, params) ==
    SubSeq(o, offset(params) + 1, Min(offset(params) + params.page_size, Len(o)))

\* the sort fields for which the loop calls order_by
order_by_fields(params) ==
    SelectSeq(get_sort_fields(params), LAMBDA f : hasattr_TodoModel(f.name))

\* the second query of search and the conversion of its rows, when the
\* first query gave total_items: the results search may produce
select_results(st, params, total_items) ==
    IF \E i \in DOMAIN order_by_fields(params) :
          order_by_fields(params)[i].name \notin Columns
      THEN {RaiseArgumentError(RepoErr.OrderBy)}
    ELSE {LET todo_models == offset_limit(o, params)
              todos == [i \in DOMAIN todo_models |->
                           to_entity(st[todo_models[i]])]
          IN  IF \E i \in DOMAIN todos : ~todos[i].ok
                THEN RaiseValueError(
                         todos[CHOOSE i \in DOMAIN todos :
                                  /\ ~todos[i].ok
                                  /\ \A j \in 1..(i - 1) : todos[j].ok].err)
              ELSE TodoSearchResult([i \in DOMAIN todos |-> todos[i].todo],
                                    total_items, params.page,
                                    params.page_size) :
          o \in orderings(st, selected(st, params), order_by_fields(params))}

\* search with both queries on the same table
search(st, params) == select_results(st, params, count_query(st, params))

(***************************************************************************)
(* TodoService (usecases/todo_service.py).  A call runs in a request p.    *)
(* The calls that make one repository call are one step; the calls that    *)
(* fetch and then persist are two steps, and other requests may run        *)
(* between the two.                                                        *)
(***************************************************************************)
ArgNames == {"title", "description", "is_done", "priority", "due_date", "tags"}

NoArgs == [k \in ArgNames |-> None]

\* update_todo: the keyword arguments built from the parameters that are
\* not None
update_data(args) ==
    [k \in {a \in ArgNames : args[a] # None} |->
        IF k \in {"description", "due_date"} THEN args[k] ELSE args[k][1]]

Call(op, id, args, tag, ids) ==
    [op |-> op, todo_id |-> id, args |-> args, tag |-> tag, todo_ids |-> ids,
     index |-> 1, updated_count |-> 0, failed_ids |-> <<>>,
     params |-> NoParams, total_items |-> 0, route |-> ""]

NoCall == Call("", 0, NoArgs, <<>>, <<>>)

(***************************************************************************)
(* The HTTP layer (interfaces/api, main.py).  A call made by an endpoint   *)
(* carries the method of its route, and its result is the response; a call *)
(* made on the service directly has route "" and the service's result.     *)
(* The trace_id and the details of an error body are left out.             *)
(***************************************************************************)
\* the exception classes create_app registers a handler for
exception_handlers == {"RequestValidationError", "ValidationError", "Exception"}

\* ErrorResponse.create(code, message).model_dump()
ErrorResponse(code, message) ==
    [error |-> [code |-> code, message |-> message]]

JSONResponse(status_code, content) ==
    [Result("response") EXCEPT !.status = status_code, !.body = content]

\* the handler of exception_handlers.py for an HTTPException whose detail
\* is a dict
http_exception_handler(status_code, detail) ==
    IF "error" \in DOMAIN detail THEN JSONResponse(status_code, detail)
    ELSE JSONResponse(status_code, ErrorResponse("HTTP_ERROR", <<>>))

\* raise HTTPException(status_code, detail) in an endpoint: the response of
\* the handler registered for HTTPException, and without one the response
\* of FastAPI's own handler, JSONResponse({"detail": exc.detail})
HTTPException(status_code, detail) ==
    IF "HTTPException" \in exception_handlers
      THEN http_exception_handler(status_code, detail)
    ELSE JSONResponse(status_code, [detail |-> detail])

\* what an endpoint makes of the result of its service call
endpoint_response(call, result) ==
    LET not_found == HTTPException(404, ErrorResponse("NOT_FOUND", "todo not found"))
        internal == HTTPException(500, ErrorResponse("INTERNAL_ERROR",
                                                     "Internal server error"))
        invalid == HTTPException(400, ErrorResponse("VALIDATION_ERROR", result.msg))
        todo_out == JSONResponse(200, result.todo)
    IN  CASE call.route = "" -> result
          [] call.route = "GET" ->
               IF result.kind = "none" THEN not_found
               ELSE IF result.kind = "todo" THEN todo_out
               ELSE internal
          [] call.route = "PATCH" ->
               IF result.kind = "none" THEN not_found
               ELSE IF result.kind = "todo" THEN todo_out
               ELSE invalid
          [] call.route = "PUT" ->
               IF result.kind = "todo" THEN todo_out
               ELSE IF result.kind = "raise" THEN invalid
               ELSE internal
          [] call.route = "DELETE" ->
               IF result.flag THEN JSONResponse(204, <<>>) ELSE not_found

\* the request body of PUT parsed as TodoCreate: None is a field the body
\* leaves out; title is stripped, tags are normalized, and is_done,
\* priority and tags get their defaults
TodoCreate(todo_data) ==
    LET tags == IF todo_data.tags = None THEN [ok |-> TRUE, tags |-> <<>>]
                ELSE normalize_tags(todo_data.tags[1], 1, <<>>)
        title == IF todo_data.title = None THEN <<>>
                 ELSE strip(todo_data.title[1])
    IN  [ok |-> title # <<>> /\ tags.ok,
         data |-> [title |-> Some(title),
                   description |-> todo_data.description,
                   is_done |-> IF todo_data.is_done = None THEN Some(FALSE)
                               ELSE todo_data.is_done,
                   priority |-> IF todo_data.priority = None THEN Some(0)
                                ELSE todo_data.priority,
                   due_date |-> todo_data.due_date,
                   tags |-> Some(tags.tags)]]

Finish(p, call, result) ==
    /\ pc' = [pc EXCEPT ![p] = "done"]
    /\ cur' = [cur EXCEPT ![p] = call]
    /\ held' = [held EXCEPT ![p] = NoTodo]
    /\ res' = [res EXCEPT ![p] = endpoint_response(call, result)]

create_todo(p, title, description, priority, due_date, tags) ==
    /\ pc[p] = "idle"
    /\ \E t1 \in Ticks(now) : \E t2 \in Ticks(t1) :
         LET todo == Todo_create(title, description, priority, due_date,
                                 tags, t1)
             call == Call("create_todo", 0,
                          [title |-> Some(title), description |-> description,
                           is_done |-> None, priority |-> Some(priority),
                           due_date |-> due_date, tags |-> tags],
                          <<>>, <<>>)
         IN  IF ~todo.ok
               THEN /\ Finish(p, call, RaiseValueError(todo.err))
                    /\ now' = t1
                    /\ UNCHANGED store
             ELSE LET r == Repo_create(store, todo.todo, t2)
                  IN  /\ Finish(p, call, r.result)
                      /\ store' = r.store
                      /\ now' = t2
    /\ UNCHANGED entVars

get_todo_by_id(p, todo_id) ==
    /\ pc[p] = "idle"
    /\ Finish(p, Call("get_todo_by_id", todo_id, NoArgs, <<>>, <<>>),
              get_by_id(store, todo_id))
    /\ UNCHANGED <<store, now>>
    /\ UNCHANGED entVars

delete_todo(p, todo_id) ==
    /\ pc[p] = "idle"
    /\ LET r == Repo_delete(store, todo_id)
       IN  /\ Finish(p, Call("delete_todo", todo_id, NoArgs, <<>>, <<>>),
                     r.result)
           /\ store' = r.store
    /\ UNCHANGED now
    /\ UNCHANGED entVars

FetchOps == {"update_todo", "mark_todo_as_done", "mark_todo_as_undone",
             "add_tag_to_todo", "remove_tag_from_todo"}

\* first half of update_todo, mark_todo_as_done, mark_todo_as_undone,
\* add_tag_to_todo and remove_tag_from_todo:
\*   existing_todo = await self.todo_repository.get_by_id(todo_id)
\*   if existing_todo is None: return None
Fetch(p, call) ==
    /\ pc[p] = "idle"
    /\ call.op \in FetchOps
    /\ LET existing_todo == get_by_id(store, call.todo_id)
       IN  IF existing_todo.kind = "todo"
             THEN /\ pc' = [pc EXCEPT ![p] = "fetched"]
                  /\ cur' = [cur EXCEPT ![p] = call]
                  /\ held' = [held EXCEPT ![p] = existing_todo.todo]
                  /\ res' = [res EXCEPT ![p] = NoResult]
           ELSE Finish(p, call, existing_todo)
    /\ UNCHANGED <<store, now>>
    /\ UNCHANGED entVars

\* the entity operation each of these calls applies to existing_todo
Transition(call, existing_todo, utcnow) ==
    CASE call.op = "update_todo" ->
           Todo_update(existing_todo, update_data(call.args), utcnow)
      [] call.op = "mark_todo_as_done" -> mark_as_done(existing_todo, utcnow)
      [] call.op = "mark_todo_as_undone" ->
           mark_as_undone(existing_todo, utcnow)
      [] call.op = "add_tag_to_todo" ->
           add_tag(existing_todo, call.tag, utcnow)
      [] call.op = "remove_tag_from_todo" ->
           remove_tag(existing_todo, call.tag, utcnow)

\* second half applying the entity operation to the row as it is stored at
\* the moment of the update, not to existing_todo
Persist_on_stored_row(p) ==
    /\ pc[p] = "fetched"
    /\ \E t1 \in Ticks(now) : \E t2 \in Ticks(t1) :
         LET stored == get_by_id(store, cur[p].todo_id)
             updated_todo ==
                 Transition(cur[p],
                            IF stored.kind = "todo" THEN stored.todo
                            ELSE held[p], t1)
         IN  IF ~updated_todo.ok
               THEN /\ res' = [res EXCEPT ![p] = endpoint_response(cur[p],
                                  RaiseValueError(updated_todo.err))]
                    /\ now' = t1
                    /\ UNCHANGED store
             ELSE LET r == Repo_update(store, updated_todo.todo, t2)
                  IN  /\ res' = [res EXCEPT ![p] =
                                   endpoint_response(cur[p], r.result)]
                      /\ store' = r.store
                      /\ now' = t2
    /\ pc' = [pc EXCEPT ![p] = "done"]
    /\ UNCHANGED <<cur, held>>
    /\ UNCHANGED entVars

\* second half: apply the entity operation, then
\*   return await self.todo_repository.update(updated_todo)
Persist(p) ==
    /\ pc[p] = "fetched"
    /\ \E t1 \in Ticks(now) : \E t2 \in Ticks(t1) :
         LET updated_todo == Transition(cur[p], held[p], t1)
         IN  IF ~updated_todo.ok
               THEN /\ res' = [res EXCEPT ![p] = endpoint_response(cur[p],
                                  RaiseValueError(updated_todo.err))]
                    /\ now' = t1
                    /\ UNCHANGED store
             ELSE LET r == Repo_update(store, updated_todo.todo, t2)
                  IN  /\ res' = [res EXCEPT ![p] =
                                   endpoint_response(cur[p], r.result)]
                      /\ store' = r.store
                      /\ now' = t2
    /\ pc' = [pc EXCEPT ![p] = "done"]
    /\ UNCHANGED <<cur, held>>
    /\ UNCHANGED entVars

(***************************************************************************)
(* The endpoints of /api/v1/todos/{todo_id}.                               *)
(***************************************************************************)
OnRoute(route, call) == [call EXCEPT !.route = route]

\* GET /api/v1/todos/{todo_id}
get_todo(p, todo_id) ==
    /\ pc[p] = "idle"
    /\ Finish(p, OnRoute("GET", Call("get_todo_by_id", todo_id, NoArgs, <<>>, <<>>)),
              get_by_id(store, todo_id))
    /\ UNCHANGED <<store, now>>
    /\ UNCHANGED entVars

\* PATCH /api/v1/todos/{todo_id}: update_fields holds the fields the body
\* sets; the call ends in Persist
update_todo(p, todo_id, update_fields) ==
    Fetch(p, OnRoute("PATCH", Call("update_todo", todo_id, update_fields, <<>>, <<>>)))

\* DELETE /api/v1/todos/{todo_id}
router_delete_todo(p, todo_id) ==
    /\ pc[p] = "idle"
    /\ LET r == Repo_delete(store, todo_id)
       IN  /\ Finish(p, OnRoute("DELETE", Call("delete_todo", todo_id, NoArgs, <<>>, <<>>)),
                     r.result)
           /\ store' = r.store
    /\ UNCHANGED now
    /\ UNCHANGED entVars

\* PUT /api/v1/todos/{todo_id}, up to
\*   existing_todo = await todo_service.get_todo_by_id(todo_id)
\* A body that is no TodoCreate is answered by validation_exception_handler.
replace_todo(p, todo_id, todo_data) ==
    /\ pc[p] = "idle"
    /\ LET parsed == TodoCreate(todo_data)
           existing_todo == get_by_id(store, todo_id)
           call(op) == OnRoute("PUT", Call(op, todo_id, parsed.data, <<>>, <<>>))
       IN  IF ~parsed.ok
             THEN /\ pc' = [pc EXCEPT ![p] = "done"]
                  /\ cur' = [cur EXCEPT ![p] = call("")]
                  /\ res' = [res EXCEPT ![p] =
                        JSONResponse(422, ErrorResponse("VALIDATION_ERROR",
                                                        "Invalid request"))]
                  /\ UNCHANGED held
           ELSE IF existing_todo.kind = "raise"
             THEN Finish(p, call("get_todo_by_id"), existing_todo)
           ELSE /\ pc' = [pc EXCEPT ![p] = "replacing"]
                /\ cur' = [cur EXCEPT ![p] =
                      call(IF existing_todo.kind = "none" THEN "create_todo"
                           ELSE "update_todo")]
                /\ UNCHANGED <<held, res>>
    /\ UNCHANGED <<store, now>>
    /\ UNCHANGED entVars

\* PUT continued: todo_service.create_todo(...) when existing_todo is None,
\* and otherwise the get_by_id of todo_service.update_todo(...), which ends
\* in Persist
replace_todo_call(p) ==
    /\ pc[p] = "replacing"
    /\ IF cur[p].op = "create_todo"
         THEN \E t1 \in Ticks(now) : \E t2 \in Ticks(t1) :
                LET todo == Todo_create(cur[p].args.title[1],
                                        cur[p].args.description,
                                        cur[p].args.priority[1],
                                        cur[p].args.due_date,
                                        cur[p].args.tags, t1)
                IN  IF ~todo.ok
                      THEN /\ Finish(p, cur[p], RaiseValueError(todo.err))
                           /\ now' = t1
                           /\ UNCHANGED store
                    ELSE LET r == Repo_create(store, todo.todo, t2)
                         IN  /\ Finish(p, cur[p], r.result)
                             /\ store' = r.store
                             /\ now' = t2
       ELSE /\ LET existing_todo == get_by_id(store, cur[p].todo_id)
               IN  IF existing_todo.kind = "todo"
                     THEN /\ pc' = [pc EXCEPT ![p] = "fetched"]
                          /\ held' = [held EXCEPT ![p] = existing_todo.todo]
                          /\ UNCHANGED <<cur, res>>
                   ELSE Finish(p, cur[p], existing_todo)
            /\ UNCHANGED <<store, now>>
    /\ UNCHANGED entVars

(***************************************************************************)
(* bulk_mark_as_done: cur[p].index is the position of the loop in          *)
(* todo_ids; every iteration is a mark_todo_as_done inside try/except.     *)
(***************************************************************************)
\* the loop moves to the next id, or the call returns its statistics
BulkAdvance(p, call) ==
    IF call.index > Len(call.todo_ids)
      THEN Finish(p, call, ReturnBulk(call.updated_count, call.failed_ids))
    ELSE /\ pc' = [pc EXCEPT ![p] = "bulk"]
         /\ cur' = [cur EXCEPT ![p] = call]
         /\ held' = [held EXCEPT ![p] = NoTodo]
         /\ res' = [res EXCEPT ![p] = NoResult]

bulk_mark_as_done(p, todo_ids) ==
    /\ pc[p] = "idle"
    /\ BulkAdvance(p, Call("bulk_mark_as_done", 0, NoArgs, <<>>, todo_ids))
    /\ UNCHANGED <<store, now>>
    /\ UNCHANGED entVars

\* the loop dropping a failed id, where the code appends it to failed_ids
BulkFailed_not_recorded(call) == [call EXCEPT !.index = @ + 1]

BulkFailed(call) ==
    [call EXCEPT !.failed_ids = Append(@, call.todo_ids[call.index]),
                 !.index = @ + 1]

BulkUpdated(call) ==
    [call EXCEPT !.updated_count = @ + 1, !.index = @ + 1]

\* mark_todo_as_done up to its get_by_id: None and an exception both put the
\* id into failed_ids
BulkFetch(p) ==
    /\ pc[p] = "bulk"
    /\ LET existing_todo == get_by_id(store, cur[p].todo_ids[cur[p].index])
       IN  IF existing_todo.kind = "todo"
             THEN /\ pc' = [pc EXCEPT ![p] = "bulk_fetched"]
                  /\ held' = [held EXCEPT ![p] = existing_todo.todo]
                  /\ UNCHANGED <<cur, res>>
           ELSE BulkAdvance(p, BulkFailed(cur[p]))
    /\ UNCHANGED <<store, now>>
    /\ UNCHANGED entVars

\* the rest of mark_todo_as_done: mark_as_done and repository.update
BulkPersist(p) ==
    /\ pc[p] = "bulk_fetched"
    /\ \E t1 \in Ticks(now) : \E t2 \in Ticks(t1) :
         LET completed_todo == mark_as_done(held[p], t1)
         IN  IF ~completed_todo.ok
               THEN /\ BulkAdvance(p, BulkFailed(cur[p]))
                    /\ now' = t1
                    /\ UNCHANGED store
             ELSE LET r == Repo_update(store, completed_todo.todo, t2)
                  IN  /\ BulkAdvance(p, IF r.result.kind = "raise"
                                          THEN BulkFailed(cur[p])
                                        ELSE BulkUpdated(cur[p]))
                      /\ store' = r.store
                      /\ now' = t2
    /\ UNCHANGED entVars

\* repository.search up to its first query, the count; args holds the
\* arguments of TodoSearchParams as they were passed
search_count(p, op, args) ==
    /\ pc[p] = "idle"
    /\ LET params == TodoSearchParams(args.page, args.page_size, args.sort,
                                      args.is_done, args.q, args.tags,
                                      args.due_before, args.due_after)
       IN  cur' = [cur EXCEPT ![p] =
                      [Call(op, 0, NoArgs, <<>>, <<>>)
                          EXCEPT !.params = args,
                                 !.total_items = count_query(store, params)]]
    /\ pc' = [pc EXCEPT ![p] = "counted"]
    /\ res' = [res EXCEPT ![p] = NoResult]
    /\ UNCHANGED <<store, now, held>>
    /\ UNCHANGED entVars

\* search_todos: the parameters are normalized and the repository searches
search_todos(p, args) == search_count(p, "search_todos", args)

\* the count aggregates: a search with page=1, page_size=1
get_todos_count(p) ==
    search_count(p, "get_todos_count",
                 [NoParams EXCEPT !.page = 1, !.page_size = 1])

get_done_todos_count(p) ==
    search_count(p, "get_done_todos_count",
                 [NoParams EXCEPT !.page = 1, !.page_size = 1,
                                  !.is_done = Some(TRUE)])

get_pending_todos_count(p) ==
    search_count(p, "get_pending_todos_count",
                 [NoParams EXCEPT !.page = 1, !.page_size = 1,
                                  !.is_done = Some(FALSE)])

\* the TodoSearchParams of the search that p runs
params_of(call) ==
    TodoSearchParams(call.params.page, call.params.page_size,
                     call.params.sort, call.params.is_done, call.params.q,
                     call.params.tags, call.params.due_before,
                     call.params.due_after)

\* the rest of repository.search: the sort, the second query and the
\* conversion of its rows; search_todos returns the result, a count
\* aggregate returns result.total_items
search_select(p) ==
    /\ pc[p] = "counted"
    /\ \E result \in select_results(store, params_of(cur[p]),
                                     cur[p].total_items) :
         Finish(p, cur[p],
                IF cur[p].op = "search_todos" \/ result.kind # "search"
                  THEN result
                ELSE ReturnCount(result.total_items))
    /\ UNCHANGED <<store, now>>
    /\ UNCHANGED entVars

\* a complete delete_todo call of another client, whose response is not
\* kept in the state
concurrent_delete(todo_id) ==
    /\ store' = Repo_delete(store, todo_id).store
    /\ UNCHANGED <<now, pc, cur, held, res>>
    /\ UNCHANGED entVars

\* the response has been delivered; the request slot is free again
Return(p) ==
    /\ pc[p] = "done"
    /\ pc' = [pc EXCEPT ![p] = "idle"]
    /\ cur' = [cur EXCEPT ![p] = NoCall]
    /\ held' = [held EXCEPT ![p] = NoTodo]
    /\ res' = [res EXCEPT ![p] = NoResult]
    /\ UNCHANGED <<store, now>>
    /\ UNCHANGED entVars

(***************************************************************************)
(* Inputs of the service calls.                                            *)
(***************************************************************************)
\* the clock starts at 1, so PastDue precedes every created_at and
\* FutureDue follows every created_at
PastDue == 0
FutureDue == MaxClock + 1

SvcInputs ==
    [title |-> {<<" ", "a", " ">>, <<" ", "\t">>},
     due_date |-> {None, Some(PastDue)},
     tag |-> {<<" ", "U">>, Rep("x", MaxTagLen + 1)},
     update |-> {[NoArgs EXCEPT !.priority = Some(MaxPriority + 1)],
                 [NoArgs EXCEPT !.is_done = Some(TRUE)]}]

FetchCalls ==
    {Call("update_todo", id, args, <<>>, <<>>) :
        id \in AllIds, args \in SvcInputs.update}
    \cup {Call(op, id, NoArgs, <<>>, <<>>) :
        op \in {"mark_todo_as_done", "mark_todo_as_undone"}, id \in AllIds}
    \cup {Call(op, id, NoArgs, tag, <<>>) :
        op \in {"add_tag_to_todo", "remove_tag_from_todo"}, id \in AllIds,
        tag \in SvcInputs.tag}

RECURSIVE SeqsUpTo(_, _)
SeqsUpTo(S, n) ==
    IF n = 0 THEN {<<>>}
    ELSE LET shorter == SeqsUpTo(S, n - 1)
         IN  shorter \cup {Append(q, x) : q \in shorter, x \in S}

BulkInputs == SeqsUpTo(AllIds, MaxBulk)

\* no entity operation has been applied yet
NoOp == [op |-> "", args |-> <<>>]

Init ==
    /\ store = <<>>
    /\ now = 1
    /\ pc = [p \in Requests |-> "idle"]
    /\ cur = [p \in Requests |-> NoCall]
    /\ held = [p \in Requests |-> NoTodo]
    /\ res = [p \in Requests |-> NoResult]
    /\ ent = NoTodo
    /\ eop = NoOp
    /\ out = Ok(NoTodo)

(***************************************************************************)
(* The service under concurrent requests: the caller runs any call, and    *)
(* another client deletes todos between the caller's repository calls.     *)
(***************************************************************************)
Next ==
    \/ \E title \in SvcInputs.title, due_date \in SvcInputs.due_date :
         /\ new_id(store) <= MaxId
         /\ create_todo("caller", title, None, 0, due_date, None)
    \/ \E todo_id \in AllIds : get_todo_by_id("caller", todo_id)
    \/ \E todo_id \in AllIds : delete_todo("caller", todo_id)
    \/ \E todo_id \in Ids : concurrent_delete(todo_id)
    \/ \E call \in FetchCalls : Fetch("caller", call)
    \/ Persist("caller")
    \/ \E todo_ids \in BulkInputs : bulk_mark_as_done("caller", todo_ids)
    \/ BulkFetch("caller")
    \/ BulkPersist("caller")
    \/ Return("caller")

Spec == Init /\ [][Next]_vars

(***************************************************************************)
(* The search: the caller stores todos that differ in every column the     *)
(* filters and the sort look at, marks the first of them done and searches. *)
(***************************************************************************)
MaxRows == 3

\* the arguments of the create_todo calls; created in this order they are
\* the todos with priorities 1, 5, 3
SearchRows ==
    <<[title |-> <<"A", "b">>, description |-> None, priority |-> 1,
       due_date |-> None, tags |-> Some(<< <<"w">>, <<"u">> >>)],
      [title |-> <<"c">>, description |-> Some(<<"a", "B">>), priority |-> 5,
       due_date |-> Some(MaxClock), tags |-> Some(<< <<"w", "u">> >>)],
      [title |-> <<"d">>, description |-> None, priority |-> 3,
       due_date |-> Some(FutureDue), tags |-> None]>>

\* sort strings: empty, one or two columns, with blanks, unknown names, a
\* bare "-", an empty name, and attributes of the model that are no columns
SearchSorts ==
    {None} \cup {Some(x) : x \in
        {<<>>, col.priority, <<"-">> \o col.priority,
         col.is_done \o <<",", "-">> \o col.priority,
         <<" ", "-">> \o col.priority \o <<" ", ",", " ">> \o col.id,
         <<"b", "o", "g", "u", "s">>,
         <<"b", "o", "g", "u", "s", ",", "-">> \o col.priority,
         <<"-">>, <<",">> \o col.priority, attr.to_entity,
         col.priority \o <<",", "-">> \o attr.to_entity}}

\* (page, page_size) as passed
SearchPages ==
    {<<DefaultPage, DefaultPageSize>>, <<1, 1>>, <<2, 1>>, <<2, 2>>,
     <<0, 0>>, <<1, MaxPageSize + 1>>, <<0 - 1, 0 - 2>>, <<3, 1>>, <<4, 1>>}

\* searches by one kind of filter, by all filters at once, and with the
\* sorts and the pages
SearchInputs ==
    {[NoParams EXCEPT !.is_done = is_done, !.q = q] :
        is_done \in {None, Some(TRUE), Some(FALSE)}, q \in {None, Some(<<>>), Some(<<"B">>), Some(<<"a">>), Some(<<"_">>)}}
    \cup {[NoParams EXCEPT !.tags = tags] : tags \in
            {Some(<<>>), Some(<< <<"W">> >>), Some(<< <<"u">>, <<"w">> >>),
             Some(<< <<"w">>, <<"x">> >>), Some(<< <<"w", "_">> >>),
             Some(<< <<"%">> >>)}}
    \cup {[NoParams EXCEPT !.due_before = due_before, !.due_after = due_after] :
            due_before \in {None, Some(MaxClock), Some(FutureDue)},
            due_after \in {None, Some(MaxClock), Some(FutureDue)}}
    \cup {[NoParams EXCEPT !.is_done = Some(FALSE), !.q = Some(<<"a">>),
                           !.tags = Some(<< <<"U">> >>),
                           !.due_before = due_before,
                           !.sort = sort, !.page = pg[1], !.page_size = pg[2]] :
            due_before \in {None, Some(FutureDue)},
            sort \in {None, Some(col.priority)},
            pg \in {<<DefaultPage, DefaultPageSize>>, <<2, 1>>}}
    \cup {[NoParams EXCEPT !.sort = sort] : sort \in SearchSorts}
    \cup {[NoParams EXCEPT !.sort = sort, !.page = pg[1], !.page_size = pg[2]] :
            sort \in {None, Some((<<"-">> \o col.priority))}, pg \in SearchPages}

NextSearch ==
    \/ \E i \in DOMAIN SearchRows :
         /\ new_id(store) <= MaxRows
         /\ create_todo("caller", SearchRows[i].title,
                        SearchRows[i].description, SearchRows[i].priority,
                        SearchRows[i].due_date, SearchRows[i].tags)
    \/ Fetch("caller", Call("mark_todo_as_done", new_id(<<>>), NoArgs, <<>>, <<>>))
    \/ Persist("caller")
    \/ \E args \in SearchInputs : search_todos("caller", args)
    \/ search_select("caller")
    \/ Return("caller")

SpecSearch == Init /\ [][NextSearch]_vars

(***************************************************************************)
(* Pages and counts: the caller stores up to MaxTodos todos, some of them  *)
(* with a due date in the past, marks the first one done, and reads pages  *)
(* and counts.                                                             *)
(***************************************************************************)
MaxTodos == 5

\* (page, page_size) of the searches
PageArgs ==
    {<<1, 2>>, <<2, 2>>, <<3, 2>>, <<4, 2>>, <<2, 3>>,
     <<DefaultPage, DefaultPageSize>>}

NextPages ==
    \/ \E due_date \in {None, Some(PastDue)} :
         /\ new_id(store) <= MaxTodos
         /\ create_todo("caller", <<"a">>, None, 0, due_date, None)
    \/ Fetch("caller", Call("mark_todo_as_done", new_id(<<>>), NoArgs, <<>>, <<>>))
    \/ Persist("caller")
    \/ \E pg \in PageArgs, is_done \in {None, Some(FALSE)} :
         search_todos("caller", [NoParams EXCEPT !.page = pg[1],
                                                 !.page_size = pg[2],
                                                 !.is_done = is_done])
    \/ get_todos_count("caller")
    \/ get_done_todos_count("caller")
    \/ get_pending_todos_count("caller")
    \/ search_select("caller")
    \/ Return("caller")

SpecPages == Init /\ [][NextPages]_vars

(***************************************************************************)
(* The same with another client that deletes todos at any moment, also     *)
(* between the two queries of a search.                                    *)
(***************************************************************************)
NextSkew ==
    \/ NextPages
    \/ \E todo_id \in 1..MaxTodos : concurrent_delete(todo_id)

SpecSkew == Init /\ [][NextSkew]_vars

(***************************************************************************)
(* Two requests at once: each runs its own calls, and the repository calls *)
(* of the two interleave in every order.  In NextRace both address the     *)
(* same todo; in NextApart each has a todo of its own.                     *)
(***************************************************************************)
RaceCalls(todo_id) ==
    {Call("add_tag_to_todo", todo_id, NoArgs, tag, <<>>) :
        tag \in {<<"x">>, <<"y">>}}
    \cup {Call("mark_todo_as_done", todo_id, NoArgs, <<>>, <<>>)}

NextRace ==
    \/ /\ store = <<>>
       /\ create_todo("caller", <<"a">>, None, 0, None, None)
    \/ \E p \in Requests, call \in RaceCalls(new_id(<<>>)) : Fetch(p, call)
    \/ \E p \in Requests : Persist(p)
    \/ \E p \in Requests : delete_todo(p, new_id(<<>>))
    \/ \E p \in Requests : Return(p)

SpecRace == Init /\ [][NextRace]_vars

\* the id each request addresses: the first and the second id of the table
OwnId == [p \in Requests |-> IF p = "caller" THEN new_id(<<>>)
                             ELSE new_id(<<>>) + 1]

NextApart ==
    \/ /\ new_id(store) <= Max(Range(OwnId))
       /\ create_todo("caller", <<"a">>, None, 0, None, None)
    \/ \E p \in Requests :
         \E call \in RaceCalls(OwnId[p]) : Fetch(p, call)
    \/ \E p \in Requests : Persist(p)
    \/ \E p \in Requests : delete_todo(p, OwnId[p])
    \/ \E p \in Requests : Return(p)

SpecApart == Init /\ [][NextApart]_vars

(***************************************************************************)
(* The endpoints of one todo: the caller stores a todo through the service *)
(* and sends GET, PATCH, PUT and DELETE requests for stored and for absent *)
(* ids.                                                                    *)
(***************************************************************************)
\* request bodies: fields left out are None
HttpBodies ==
    {NoArgs,
     [NoArgs EXCEPT !.title = Some(<<" ", "b">>)],
     [NoArgs EXCEPT !.title = Some(<<" ">>)],
     [title |-> Some(<<"b">>), description |-> Some(<<"e">>),
      is_done |-> Some(TRUE), priority |-> Some(MaxPriority),
      due_date |-> Some(FutureDue + 1), tags |-> Some(<< <<"X">>, <<"x">> >>)]}

NextHttp ==
    \/ \E description \in {None, Some(<<"d">>)},
          due_date \in {None, Some(FutureDue)}, tags \in {None, Some(<< <<"w">> >>)} :
         /\ store = <<>>
         /\ create_todo("caller", <<"a">>, description, 0, due_date, tags)
    \/ \E todo_id \in AllIds : get_todo("caller", todo_id)
    \/ \E todo_id \in AllIds, update_fields \in HttpBodies :
         \* the bodies that are a TodoUpdate
         /\ IF update_fields.title = None THEN TRUE
            ELSE strip(update_fields.title[1]) # <<>>
         /\ update_todo("caller", todo_id, update_fields)
    \/ \E todo_id \in AllIds, todo_data \in HttpBodies :
         /\ IF todo_id \in DOMAIN store THEN TRUE ELSE new_id(store) <= MaxId
         /\ replace_todo("caller", todo_id, todo_data)
    \/ replace_todo_call("caller")
    \/ Persist("caller")
    \/ \E todo_id \in AllIds : router_delete_todo("caller", todo_id)
    \/ Return("caller")

SpecHttp == Init /\ [][NextHttp]_vars

(***************************************************************************)
(* TodoSearchResult on its own: results are constructed from any counts,   *)
(* page_size 0 included, which no search passes.                           *)
(***************************************************************************)
MaxTotalItems == 20
MaxSize == 5

\* TodoSearchResult(items=[], total_items=..., page=..., page_size=...)
NewSearchResult(p, total_items, page, page_size) ==
    /\ pc[p] = "idle"
    /\ Finish(p, NoCall, TodoSearchResult(<<>>, total_items, page, page_size))
    /\ UNCHANGED <<store, now>>
    /\ UNCHANGED entVars

NextResult ==
    \/ \E total_items \in 0..MaxTotalItems, page \in 1..2, page_size \in 0..MaxSize :
         NewSearchResult("caller", total_items, page, page_size)
    \/ Return("caller")

SpecResult == Init /\ [][NextResult]_vars

(***************************************************************************)
(* The service on a single todo with inputs that vary every field: one     *)
(* caller creates the todo, updates it field by field, reads and deletes   *)
(* it.                                                                     *)
(***************************************************************************)
FieldInputs ==
    [title |-> {<<" ", "a", " ">>, <<" ">>},
     description |-> {None, Some(<<"d">>)},
     priority |-> {0, 3},
     due_date |-> {None, Some(PastDue), Some(FutureDue)},
     tags |-> {None, Some(<< <<"W">>, <<" ", "w">>, <<"u">> >>)}]

\* the values update_todo is given for each parameter; they include the
\* values Python treats as false: "", False, 0 and []
ArgValues(k) ==
    CASE k = "title" -> {<<"b", " ">>, <<"\t">>}
      [] k = "description" -> {<<>>, <<"e">>}
      [] k = "is_done" -> {TRUE, FALSE}
      [] k = "priority" -> {0, MaxPriority, MaxPriority + 1}
      [] k = "due_date" -> {PastDue, FutureDue + 1}
      [] k = "tags" -> {<<>>, << <<"X">>, <<"x", " ">>, <<"w">> >>}

OneArg == UNION {{[NoArgs EXCEPT ![k] = Some(v)] : v \in ArgValues(k)} :
                    k \in ArgNames}

AllArgs ==
    {[title |-> Some(<<"b", " ">>), description |-> Some(d),
      is_done |-> Some(TRUE), priority |-> Some(MaxPriority),
      due_date |-> Some(FutureDue + 1), tags |-> Some(<<>>)] :
        d \in ArgValues("description")}

FieldUpdates == {NoArgs} \cup OneArg \cup AllArgs

NextFields ==
    \/ \E title \in FieldInputs.title,
          description \in FieldInputs.description,
          priority \in FieldInputs.priority,
          due_date \in FieldInputs.due_date, tags \in FieldInputs.tags :
         /\ store = <<>>
         /\ create_todo("caller", title, description, priority, due_date,
                        tags)
    \/ \E todo_id \in AllIds : get_todo_by_id("caller", todo_id)
    \/ \E todo_id \in AllIds : delete_todo("caller", todo_id)
    \/ \E todo_id \in AllIds, args \in FieldUpdates :
         Fetch("caller", Call("update_todo", todo_id, args, <<>>, <<>>))
    \/ Persist("caller")
    \/ Return("caller")

SpecFields == Init /\ [][NextFields]_vars

(***************************************************************************)
(* Properties of the service.                                              *)
(***************************************************************************)
\* the messages of the ValueErrors that _validate_and_normalize raises
ValidationMessages ==
    {Err.TitleRequired, Err.TitleTooLong, Err.DescriptionTooLong, Err.Priority,
     Err.TagTooLong, Err.TooManyTags, Err.DueDate}

\* the exception class of a validation failure
ValidationErrorKind == RaiseValueError(Err.TitleRequired).exc

IsValidationError(result) ==
    result.kind = "raise" /\ result.msg \in ValidationMessages

\* request p finishes its call in this step
Completes(p) == pc[p] # "done" /\ pc'[p] = "done"

\* C1: when the id fetched by update_todo, a toggle or a tag operation is no
\* longer stored when repository.update runs, the error the caller receives
\* is of another kind than a validation error.
C1_NotFoundIsDistinctFromValidation ==
    \A p \in Requests :
        (pc[p] = "done" /\ cur[p].op \in FetchOps
         /\ res[p].kind = "raise" /\ res[p].msg = RepoErr.NotFound)
        => res[p].exc # ValidationErrorKind

\* C2: a create_todo, update_todo or tag operation that ends with a
\* validation error has added no record and modified no record.
C2_ValidationErrorLeavesStorage ==
    [][\A p \in Requests :
         (Completes(p)
          /\ cur'[p].op \in {"create_todo", "update_todo", "add_tag_to_todo",
                             "remove_tag_from_todo"}
          /\ IsValidationError(res'[p]))
         => store' = store]_vars

\* C3: create_todo with a valid title and a due_date in the past returns the
\* persisted todo, with an id and that due_date.
C3_PastDueDateIsAccepted ==
    \A p \in Requests :
        (pc[p] = "done" /\ cur[p].op = "create_todo"
         /\ strip(cur[p].args.title[1]) # <<>>
         /\ Len(strip(cur[p].args.title[1])) <= MaxTitleLen
         /\ cur[p].args.due_date = Some(PastDue))
        => /\ res[p].kind = "todo"
           /\ res[p].todo.id # None
           /\ res[p].todo.due_date = cur[p].args.due_date

\* the invariants of the Todo entity, stated for a stored record
IsNormalTag(tag) ==
    /\ tag # <<>>
    /\ Len(tag) <= MaxTagLen
    /\ tag[1] \notin Whitespace /\ tag[Len(tag)] \notin Whitespace
    /\ \A i \in DOMAIN tag : lowerChar(tag[i]) = tag[i]

EntityInvariants(r) ==
    /\ r.title # <<>>
    /\ r.title[1] \notin Whitespace /\ r.title[Len(r.title)] \notin Whitespace
    /\ Len(r.title) <= MaxTitleLen
    /\ r.description # None => Len(r.description[1]) <= MaxDescriptionLen
    /\ r.priority \in 0..MaxPriority
    /\ Len(r.tags) <= MaxTags
    /\ \A i \in DOMAIN r.tags : IsNormalTag(r.tags[i])
    /\ \A i, j \in DOMAIN r.tags : r.tags[i] = r.tags[j] => i = j
    /\ (r.id # None /\ r.created_at # None /\ r.due_date # None)
          => r.due_date[1] >= r.created_at[1]

\* C4: every stored todo satisfies the entity invariants, so rebuilding an
\* entity from a stored record never fails validation.
C4_StoredTodosAreValid ==
    \A id \in DOMAIN store :
        /\ EntityInvariants(store[id])
        /\ get_by_id(store, id).kind = "todo"

SameFields(a, b) ==
    /\ a.id = b.id /\ a.title = b.title /\ a.description = b.description
    /\ a.is_done = b.is_done /\ a.priority = b.priority
    /\ a.due_date = b.due_date /\ a.tags = b.tags
    /\ a.created_at = b.created_at

\* C5: get_todo_by_id with the id of a todo that create_todo has just
\* returned gives a todo with that id and the same title, description,
\* is_done, priority, due_date, tags and created_at.
C5_CreateThenGetRoundTrip ==
    [][\A p \in Requests :
         (Completes(p) /\ cur'[p].op = "create_todo"
          /\ res'[p].kind = "todo")
         => /\ res'[p].todo.id # None
            /\ LET got == get_by_id(store', res'[p].todo.id[1])
               IN  got.kind = "todo" /\ SameFields(got.todo, res'[p].todo)]_vars

C5_Witness ==
    /\ pc["caller"] = "done" /\ cur["caller"].op = "create_todo"
    /\ res["caller"].kind = "todo"
    /\ res["caller"].todo.tags # <<>>
    /\ res["caller"].todo.description # None
    /\ res["caller"].todo.due_date # None

\* s is t with some of its elements left out
RECURSIVE IsSubsequence(_, _)
IsSubsequence(s, t) ==
    IF s = <<>> THEN TRUE
    ELSE IF t = <<>> THEN FALSE
    ELSE IF s[1] = t[1] THEN IsSubsequence(Tail(s), Tail(t))
    ELSE IsSubsequence(s, Tail(t))

BulkCounts(p) ==
    cur[p].op = "bulk_mark_as_done" =>
        /\ cur[p].updated_count + Len(cur[p].failed_ids) = cur[p].index - 1
        /\ IsSubsequence(cur[p].failed_ids,
                         SubSeq(cur[p].todo_ids, 1, cur[p].index - 1))
        /\ pc[p] = "done" =>
             /\ cur[p].index = Len(cur[p].todo_ids) + 1
             /\ res[p] = ReturnBulk(cur[p].updated_count, cur[p].failed_ids)

\* the iteration on todo_ids[index] ends in this step
BulkIteration(p) ==
    /\ pc[p] \in {"bulk", "bulk_fetched"}
    /\ cur'[p].index = cur[p].index + 1

BulkOutcome(p) ==
    LET todo_id == cur[p].todo_ids[cur[p].index]
        succeeds == /\ pc[p] = "bulk_fetched"
                    /\ todo_id \in DOMAIN store
    IN  IF succeeds
          THEN /\ cur'[p].updated_count = cur[p].updated_count + 1
               /\ cur'[p].failed_ids = cur[p].failed_ids
               /\ store'[todo_id].is_done
        ELSE /\ cur'[p].updated_count = cur[p].updated_count
             /\ cur'[p].failed_ids = Append(cur[p].failed_ids, todo_id)
             /\ store' = store

\* C6: bulk_mark_as_done never raises and processes every id in order: an
\* id that is absent or whose mark_todo_as_done raises goes to failed_ids
\* and the next ids are still processed; updated counts the successes and
\* updated + len(failed_ids) = len(ids).
C6_BulkIsolatesFailures ==
    /\ [](\A p \in Requests : BulkCounts(p))
    /\ [][\A p \in Requests : BulkIteration(p) => BulkOutcome(p)]_vars

C6_Witness ==
    /\ pc["caller"] = "done" /\ cur["caller"].op = "bulk_mark_as_done"
    /\ res["caller"].updated = 1
    /\ Len(res["caller"].failed_ids) = 1
    /\ res["caller"].failed_ids[1] \in DOMAIN store

\* C7: update_todo, the toggles and the tag operations called with an id
\* that is not stored return None without raising, never reach
\* repository.update and leave storage unchanged.
C7_AbsentIdReturnsNone ==
    [][\A p \in Requests :
         (pc[p] = "idle" /\ pc'[p] # "idle" /\ cur'[p].op \in FetchOps
          /\ cur'[p].todo_id \notin DOMAIN store)
         => /\ pc'[p] = "done"
            /\ res'[p] = ReturnNone
            /\ store' = store]_vars

C7_Witness ==
    /\ pc["caller"] = "done" /\ cur["caller"].op \in FetchOps
    /\ res["caller"] = ReturnNone
    /\ store # <<>>

\* C13: as long as a todo is stored, its id and its created_at stay what
\* they were, whatever update_todo, toggle, tag and bulk calls run; they are
\* the id and the created_at that the create_todo which stored it returned.
C13_IdAndCreatedAtAreStable ==
    [][/\ \A id \in DOMAIN store \cap DOMAIN store' :
            /\ store'[id].id = store[id].id
            /\ store'[id].created_at = store[id].created_at
       /\ \A id \in DOMAIN store' : store'[id].id = Some(id)
       /\ \A p \in Requests :
            (Completes(p) /\ cur'[p].op = "create_todo"
             /\ res'[p].kind = "todo")
            => LET id == res'[p].todo.id[1]
               IN  /\ id \in DOMAIN store' \ DOMAIN store
                   /\ store'[id].created_at = res'[p].todo.created_at]_vars

\* a toggle has been persisted at a later clock reading than the creation
C13_Witness ==
    /\ pc["caller"] = "done"
    /\ cur["caller"].op \in FetchOps \cup {"bulk_mark_as_done"}
    /\ \E id \in DOMAIN store :
         /\ store[id].is_done
         /\ store[id].updated_at[1] > store[id].created_at[1]

\* the steps in which a toggle of p is persisted and returns the todo
Toggles(p, op) ==
    /\ pc[p] = "fetched"
    /\ cur[p].op = op
    /\ pc'[p] = "done"
    /\ res'[p].kind = "todo"

\* row with the two fields a toggle writes blanked out
ToggleFrame(row) == [row EXCEPT !.is_done = FALSE, !.updated_at = None]

\* C15: a mark_todo_as_done that returns the todo leaves the stored is_done
\* true and a mark_todo_as_undone leaves it false, whatever it was before,
\* so done followed by undone gives false; the toggle changes no stored
\* field but is_done and updated_at.
C15_IsDoneStateMachine ==
    [][\A p \in Requests :
         /\ Toggles(p, "mark_todo_as_done") =>
               /\ store'[cur[p].todo_id].is_done
               /\ res'[p].todo.is_done
         /\ Toggles(p, "mark_todo_as_undone") =>
               /\ ~store'[cur[p].todo_id].is_done
               /\ ~res'[p].todo.is_done
         /\ (Toggles(p, "mark_todo_as_done")
               \/ Toggles(p, "mark_todo_as_undone")) =>
               /\ DOMAIN store' = DOMAIN store
               /\ \A id \in DOMAIN store \ {cur[p].todo_id} :
                     store'[id] = store[id]
               /\ ToggleFrame(store'[cur[p].todo_id])
                    = ToggleFrame(store[cur[p].todo_id])]_vars

\* a todo that was done has been marked undone
C15_Witness ==
    /\ pc["caller"] = "done"
    /\ cur["caller"].op = "mark_todo_as_undone"
    /\ res["caller"].kind = "todo"
    /\ held["caller"].is_done
    /\ ~store[cur["caller"].todo_id].is_done

\* the tags list that _validate_and_normalize is to produce from tags:
\* trimmed and lower-cased, empty entries and later duplicates dropped, in
\* order of first appearance
NormalizedTags(tags) ==
    LET norm(i) == lower(strip(tags[i]))
        keep == {i \in DOMAIN tags :
                    norm(i) # <<>> /\ \A j \in 1..(i - 1) : norm(j) # norm(i)}
        nth(k) == CHOOSE i \in keep : Cardinality({j \in keep : j <= i}) = k
    IN  [k \in 1..Cardinality(keep) |-> norm(nth(k))]

\* the stored value of a field that update_todo was given
Supplied(k, v) ==
    CASE k = "title" -> strip(v)
      [] k = "tags" -> NormalizedTags(v)
      [] k \in {"description", "due_date"} -> Some(v)
      [] OTHER -> v

\* C8: after a successful update_todo every supplied field holds the
\* supplied, normalized value in storage, every field that was not supplied
\* holds the value it had before, and id and created_at are unchanged.
C8_PartialUpdate ==
    [][\A p \in Requests :
         (Completes(p) /\ cur[p].op = "update_todo" /\ res'[p].kind = "todo")
         => LET todo_id == cur[p].todo_id
                args == cur[p].args
            IN  /\ todo_id \in DOMAIN store'
                /\ \A k \in ArgNames :
                     store'[todo_id][k] =
                        IF args[k] # None THEN Supplied(k, args[k][1])
                        ELSE store[todo_id][k]
                /\ store'[todo_id].id = store[todo_id].id
                /\ store'[todo_id].created_at = store[todo_id].created_at]_vars

C8_Witness ==
    /\ pc["caller"] = "done" /\ cur["caller"].op = "update_todo"
    /\ res["caller"].kind = "todo"
    /\ cur["caller"].args.priority = Some(0)
    /\ cur["caller"].args.title = None
    /\ res["caller"].todo.title = <<"b">>
    /\ res["caller"].todo.description = Some(<<>>)

(***************************************************************************)
(* The Todo entity on its own: ent is an instance, a step applies one       *)
(* operation of the class to inputs drawn from the sets below and leaves   *)
(* its outcome in out, and the next operation starts when that outcome has *)
(* been dropped.                                                           *)
(***************************************************************************)
\* n different tags
DistinctTags(n) == [i \in 1..n |-> Rep("x", i)]

EntTitles ==
    {<<>>, <<" ">>, <<"\t", " ">>, <<"a">>, <<" ", "A", " ", "b", "\t">>,
     Rep("x", MaxTitleLen), Rep("x", MaxTitleLen + 1),
     <<" ">> \o Rep("x", MaxTitleLen) \o <<" ">>,
     <<"\t">> \o Rep("x", MaxTitleLen + 1)}

EntTagValues ==
    {<<>>, <<" ">>, <<"w">>, <<"W", " ">>, <<" ", "u">>,
     Rep("x", MaxTagLen + 1), <<" ">> \o Rep("X", MaxTagLen) \o <<" ">>}

\* the tags given to add_tag and remove_tag
EntTagArgs == EntTagValues \cup {<<"X", "x">>}

EntTagLists ==
    SeqsUpTo(EntTagValues, MaxTagListLen)
    \cup {DistinctTags(MaxTags), DistinctTags(MaxTags + 1),
          DistinctTags(MaxTags) \o << <<"X">>, <<" ", "x", "x">> >>,
          DistinctTags(MaxTags) \o << <<"X">>, Rep("x", MaxTags + 1) >>,
          <<Rep("x", MaxTagLen + 1)>> \o DistinctTags(MaxTags + 1)}

\* ent = Todo.create(...), while there is no instance yet
E_create(title, description, priority, due_date, tags) ==
    /\ ent = NoTodo
    /\ eop = NoOp
    /\ \E t \in Ticks(now) :
         /\ out' = Todo_create(title, description, priority, due_date, tags, t)
         /\ now' = t
    /\ eop' = [op |-> "create",
               args |-> [title |-> title, description |-> description,
                         priority |-> priority, due_date |-> due_date,
                         tags |-> IF tags = None THEN <<>> ELSE tags[1]]]
    /\ ent' = IF out'.ok THEN out'.todo ELSE ent
    /\ UNCHANGED svcVars

\* the instance that repository.create returns for ent: to_entity of the
\* row stored for it
E_persisted(id) ==
    /\ ent # NoTodo
    /\ eop = NoOp
    /\ ent.id = None
    /\ out' = to_entity([from_entity(ent) EXCEPT !.id = Some(id)])
    /\ eop' = [op |-> "to_entity", args |-> <<>>]
    /\ ent' = IF out'.ok THEN out'.todo ELSE ent
    /\ UNCHANGED now
    /\ UNCHANGED svcVars

\* b = ent.update(...): ent itself stays as it is
E_update(kwargs) ==
    /\ ent # NoTodo
    /\ eop = NoOp
    /\ \E t \in Ticks(now) :
         /\ out' = Todo_update(ent, kwargs, t)
         /\ now' = t
    /\ eop' = [op |-> "update", args |-> kwargs]
    /\ UNCHANGED ent
    /\ UNCHANGED svcVars

\* b = ent.mark_as_done() and b = ent.mark_as_undone()
E_mark_as_done ==
    /\ ent # NoTodo
    /\ eop = NoOp
    /\ \E t \in Ticks(now) :
         /\ out' = mark_as_done(ent, t)
         /\ now' = t
    /\ eop' = [op |-> "mark_as_done", args |-> <<>>]
    /\ UNCHANGED ent
    /\ UNCHANGED svcVars

E_mark_as_undone ==
    /\ ent # NoTodo
    /\ eop = NoOp
    /\ \E t \in Ticks(now) :
         /\ out' = mark_as_undone(ent, t)
         /\ now' = t
    /\ eop' = [op |-> "mark_as_undone", args |-> <<>>]
    /\ UNCHANGED ent
    /\ UNCHANGED svcVars

\* b = ent.add_tag(tag) and b = ent.remove_tag(tag): the receiver holds its
\* list as the statements on the two lists leave it
E_add_tag(tag) ==
    /\ ent # NoTodo
    /\ eop = NoOp
    /\ \E t \in Ticks(now) :
         /\ out' = add_tag(ent, tag, t)
         /\ now' = t
    /\ eop' = [op |-> "add_tag", args |-> [tag |-> tag]]
    /\ ent' = [ent EXCEPT !.tags = add_tag_lists(ent, tag).self_tags]
    /\ UNCHANGED svcVars

E_remove_tag(tag) ==
    /\ ent # NoTodo
    /\ eop = NoOp
    /\ \E t \in Ticks(now) :
         /\ out' = remove_tag(ent, tag, t)
         /\ now' = t
    /\ eop' = [op |-> "remove_tag", args |-> [tag |-> tag]]
    /\ ent' = [ent EXCEPT !.tags = remove_tag_lists(ent, tag).self_tags]
    /\ UNCHANGED svcVars

\* ent = b: the caller goes on with the instance a toggle or a tag operation
\* returned
E_keep ==
    /\ eop.op \in {"mark_as_done", "mark_as_undone", "add_tag", "remove_tag"}
    /\ out.ok
    /\ Len(out.todo.tags) <= MaxTagListLen
    /\ ent' = out.todo
    /\ eop' = NoOp
    /\ out' = Ok(NoTodo)
    /\ UNCHANGED now
    /\ UNCHANGED svcVars

\* the outcome of the last operation goes out of scope
E_drop ==
    /\ eop # NoOp
    /\ eop' = NoOp
    /\ out' = Ok(NoTodo)
    /\ UNCHANGED <<ent, now>>
    /\ UNCHANGED svcVars

\* every priority of the valid range and its two neighbours
EntPriorities == (0 - 1)..(MaxPriority + 1)

EntKwargs ==
    {<<>>}
    \cup {[priority |-> priority] : priority \in EntPriorities}
    \cup {[title |-> title] : title \in EntTitles}
    \cup {[tags |-> tags] : tags \in EntTagLists}
    \cup {[title |-> <<"b", " ">>, tags |-> tags, priority |-> priority] :
            tags \in {<<>>, << <<"U">>, <<"u">> >>},
            priority \in {0, MaxPriority + 1}}
    \cup {[due_date |-> due_date] : due_date \in {None, Some(PastDue)}}

NextEntity ==
    \/ \E title \in EntTitles, tags \in {None} \cup {Some(l) : l \in EntTagLists} :
         E_create(title, None, 0, None, tags)
    \/ \E title \in {<<"a">>, <<>>}, description \in FieldInputs.description,
          priority \in {0, MaxPriority + 1},
          due_date \in FieldInputs.due_date :
         E_create(title, description, priority, due_date,
                  Some(<< <<"w">> >>))
    \/ \E priority \in EntPriorities :
         E_create(<<"a">>, None, priority, None, None)
    \/ E_persisted(1)
    \/ \E kwargs \in EntKwargs : E_update(kwargs)
    \/ E_drop

SpecEntity == Init /\ [][NextEntity]_vars

(***************************************************************************)
(* The transitions of one Todo instance: update, the two toggles and the   *)
(* two tag operations, applied one after the other to the instance the     *)
(* caller keeps.                                                           *)
(***************************************************************************)
TransTagLists == {None, Some(<< <<"W", " ">> >>), Some(DistinctTags(MaxTags))}

TransKwargs ==
    {<<>>, [title |-> <<"b", " ">>], [is_done |-> TRUE],
     [tags |-> << <<"u">>, <<"U">> >>], [updated_at |-> Some(PastDue)]}

NextTransitions ==
    \/ \E tags \in TransTagLists : E_create(<<"a">>, None, 0, None, tags)
    \/ E_persisted(1)
    \/ \E kwargs \in TransKwargs : E_update(kwargs)
    \/ E_mark_as_done
    \/ E_mark_as_undone
    \/ \E tag \in EntTagArgs : E_add_tag(tag)
    \/ \E tag \in EntTagArgs : E_remove_tag(tag)
    \/ E_keep
    \/ E_drop

SpecTransitions == Init /\ [][NextTransitions]_vars

\* the title and the tags an entity operation was given, if any
GivenTitle == IF "title" \in DOMAIN eop.args THEN Some(eop.args.title) ELSE None
GivenTags == IF "tags" \in DOMAIN eop.args THEN Some(eop.args.tags) ELSE None

\* C9: constructing or updating a Todo with a tag list either raises (a
\* trimmed tag longer than 30, or more than 20 tags after normalization) or
\* yields the tags trimmed, lower-cased, without empty entries and later
\* duplicates, in order of first appearance; the limit of 20 applies after
\* deduplication.
C9_TagNormalization ==
    (eop.op \in {"create", "update"} /\ GivenTags # None) =>
        LET tags == GivenTags[1]
            tooLong == \E i \in DOMAIN tags : Len(strip(tags[i])) > MaxTagLen
            tooMany == Len(NormalizedTags(tags)) > MaxTags
        IN  /\ (tooLong \/ tooMany) => ~out.ok
            /\ out.ok => out.todo.tags = NormalizedTags(tags)
            /\ (~out.ok /\ ~tooLong /\ ~tooMany)
                  => out.err \notin {Err.TagTooLong, Err.TooManyTags}
            /\ (~out.ok /\ out.err = Err.TagTooLong) => tooLong
            /\ (~out.ok /\ out.err = Err.TooManyTags) => tooMany

\* more than 20 raw tags that normalize to 20 are accepted
C9_Witness ==
    /\ eop.op \in {"create", "update"} /\ GivenTags # None
    /\ Len(GivenTags[1]) > MaxTags
    /\ out.ok
    /\ Len(out.todo.tags) = MaxTags

\* C10: Todo.create and Todo.update fail for a title that is empty or only
\* whitespace; any other title is stored trimmed, and the operation fails
\* on the title exactly when the trimmed title is longer than 200.
C10_TitleRule ==
    (eop.op \in {"create", "update"} /\ GivenTitle # None) =>
        LET title == GivenTitle[1]
            blank == \A i \in DOMAIN title : title[i] \in Whitespace
        IN  /\ blank => (~out.ok /\ out.err = Err.TitleRequired)
            /\ (~blank /\ Len(strip(title)) > MaxTitleLen)
                  => (~out.ok /\ out.err = Err.TitleTooLong)
            /\ (~blank /\ Len(strip(title)) <= MaxTitleLen)
                  => /\ out.err \notin {Err.TitleRequired, Err.TitleTooLong}
                     /\ out.ok => out.todo.title = strip(title)
            /\ out.ok =>
                  /\ out.todo.title[1] \notin Whitespace
                  /\ out.todo.title[Len(out.todo.title)] \notin Whitespace

\* a title longer than 200 with its whitespace, and 200 without, is stored
C10_Witness ==
    /\ eop.op \in {"create", "update"} /\ GivenTitle # None
    /\ Len(GivenTitle[1]) > MaxTitleLen
    /\ out.ok
    /\ Len(out.todo.title) = MaxTitleLen

\* the priority an entity operation was given, if any
GivenPriority ==
    IF "priority" \in DOMAIN eop.args THEN Some(eop.args.priority) ELSE None

\* C11: Todo.create and Todo.update given a priority outside 0..5 fail with
\* a validation error; given a priority inside 0..5 they do not fail on the
\* priority, the todo they return carries that priority, and an update of
\* the priority alone succeeds.
C11_PriorityRule ==
    (eop.op \in {"create", "update"} /\ GivenPriority # None) =>
        LET priority == GivenPriority[1]
        IN  /\ priority \notin 0..MaxPriority =>
                  (~out.ok /\ out.err \in ValidationMessages)
            /\ priority \in 0..MaxPriority =>
                  /\ out.err # Err.Priority
                  /\ out.ok => out.todo.priority = priority
                  /\ DOMAIN eop.args = {"priority"} => out.ok

\* update was given the largest valid priority and its result carries it
C11_Witness ==
    /\ eop.op \in {"create", "update"} /\ GivenPriority # None
    /\ eop.op = "update"
    /\ GivenPriority[1] = MaxPriority
    /\ ent.priority # MaxPriority
    /\ out.ok
    /\ out.todo.priority = MaxPriority

(***************************************************************************)
(* Properties of the transitions of an instance.                           *)
(***************************************************************************)
TransitionOps ==
    {"update", "mark_as_done", "mark_as_undone", "add_tag", "remove_tag"}

\* a step in which one of the five methods is called on ent
TransitionStep == eop = NoOp /\ eop'.op \in TransitionOps

C14_UpdatedAtStrictlyAdvances ==
    [][(TransitionStep /\ out'.ok /\ "updated_at" \notin DOMAIN eop'.args) =>
          out'.todo.updated_at[1] > ent.updated_at[1]]_vars

\* the tag that add_tag and remove_tag look for
GivenTag == lower(strip(eop.args.tag))

\* s without the entries equal to x
Without(s, x) == SelectSeq(s, LAMBDA t : t # x)

\* C16 as stated: adding a tag that is empty or already present and removing
\* a tag that is absent return the same tags list without an error; in the
\* other cases add_tag appends the normalized tag at the end and remove_tag
\* removes exactly that tag and keeps the order of the others.
C16_TagOperations ==
    /\ eop.op = "add_tag" =>
          /\ out.ok
          /\ out.todo.tags = IF GivenTag = <<>> \/ GivenTag \in Range(ent.tags)
                             THEN ent.tags
                             ELSE Append(ent.tags, GivenTag)
    /\ eop.op = "remove_tag" =>
          /\ out.ok
          /\ out.todo.tags = Without(ent.tags, GivenTag)

\* C16 as amended: as above, except that add_tag of a new tag raises a
\* validation error when the normalized tag is longer than 30 characters or
\* when the instance already has 20 tags.
C16_TagOperationsWithinLimits ==
    /\ eop.op = "add_tag" =>
          IF GivenTag = <<>> \/ GivenTag \in Range(ent.tags)
            THEN out.ok /\ out.todo.tags = ent.tags
          ELSE IF Len(GivenTag) > MaxTagLen
            THEN ~out.ok /\ out.err = Err.TagTooLong
          ELSE IF Len(ent.tags) >= MaxTags
            THEN ~out.ok /\ out.err = Err.TooManyTags
          ELSE out.ok /\ out.todo.tags = Append(ent.tags, GivenTag)
    /\ eop.op = "remove_tag" =>
          /\ out.ok
          /\ out.todo.tags = Without(ent.tags, GivenTag)

\* a tag was added to an instance that got the same tag from an earlier
\* add_tag, and is present once
C16_Witness ==
    /\ eop.op = "add_tag"
    /\ eop.args.tag # GivenTag
    /\ Len(ent.tags) > 1
    /\ ent.tags[Len(ent.tags)] = GivenTag
    /\ out.ok
    /\ out.todo.tags = ent.tags

(***************************************************************************)
(* Properties of the search.                                               *)
(***************************************************************************)
\* p has finished a search that returned a TodoSearchResult
SearchReturned(p) ==
    pc[p] = "done" /\ cur[p].op = "search_todos" /\ res[p].kind = "search"

\* sub occurs in x
Contains(x, sub) ==
    \E i \in 1..(Len(x) - Len(sub) + 1) : SubSeq(x, i, i + Len(sub) - 1) = sub

\* every requested tag, lower-cased, is one of the tags of todo
HasAllTags(todo, tags) ==
    \A i \in DOMAIN tags : lower(tags[i]) \in Range(todo.tags)

\* todo satisfies every filter that args supplies
Satisfies(todo, args) ==
    /\ args.is_done # None => todo.is_done = args.is_done[1]
    /\ args.q # None =>
          \/ Contains(lower(todo.title), lower(args.q[1]))
          \/ /\ todo.description # None
             /\ Contains(lower(todo.description[1]), lower(args.q[1]))
    /\ args.tags # None => HasAllTags(todo, args.tags[1])
    /\ args.due_before # None =>
          (todo.due_date # None /\ todo.due_date[1] <= args.due_before[1])
    /\ args.due_after # None =>
          (todo.due_date # None /\ todo.due_date[1] >= args.due_after[1])

\* C17: total_items of a search is the number of stored todos that satisfy
\* all supplied filters (is_done, q contained in title or description
\* without regard to case, every tag present, due_date within the inclusive
\* bounds), whatever page, page_size and sort are, and every returned item
\* satisfies them.
C17_FilterSemantics ==
    \A p \in Requests :
        SearchReturned(p) =>
            /\ res[p].total_items =
                  Cardinality({id \in DOMAIN store :
                                  Satisfies(store[id], cur[p].params)})
            /\ \A i \in DOMAIN res[p].items :
                  Satisfies(res[p].items[i], cur[p].params)

\* the search supplies no filter but tags
OnlyTags(args) ==
    /\ args.tags # None
    /\ args.is_done = None /\ args.q = None
    /\ args.due_before = None /\ args.due_after = None

\* C18: a search by tags matches exactly the todos that hold, for every
\* requested tag, a stored tag equal to its lower-cased form.
C18_TagFilterIsExact ==
    \A p \in Requests :
        (SearchReturned(p) /\ OnlyTags(cur[p].params)) =>
            /\ res[p].total_items =
                  Cardinality({id \in DOMAIN store :
                                  HasAllTags(store[id], cur[p].params.tags[1])})
            /\ \A i \in DOMAIN res[p].items :
                  HasAllTags(res[p].items[i], cur[p].params.tags[1])

\* what the sort strings of the searches mean: the known fields in listed
\* order with their directions
Asc(name) == [name |-> name, direction |-> "asc"]
Desc(name) == [name |-> name, direction |-> "desc"]

SortMeaning(sort) ==
    CASE sort \in {None, Some(<<>>)} -> <<Desc("created_at")>>
      [] sort = Some(col.priority) -> <<Asc("priority")>>
      [] sort = Some((<<"-">> \o col.priority)) -> <<Desc("priority")>>
      [] sort = Some((col.is_done \o <<",", "-">> \o col.priority)) ->
           <<Asc("is_done"), Desc("priority")>>
      [] sort = Some((<<"b", "o", "g", "u", "s", ",", "-">> \o col.priority)) -> <<Desc("priority")>>
      [] sort = Some((<<",">> \o col.priority)) -> <<Asc("priority")>>
      [] OTHER -> <<>>

FieldValue(todo, name) ==
    CASE name = "created_at" -> todo.created_at[1]
      [] name = "priority" -> todo.priority
      [] name = "is_done" -> IF todo.is_done THEN 1 ELSE 0

\* the first key on which a and b differ puts a before b, or none differs
InOrder(a, b, keys) ==
    \/ \A k \in DOMAIN keys :
          FieldValue(a, keys[k].name) = FieldValue(b, keys[k].name)
    \/ \E k \in DOMAIN keys :
          /\ \A j \in 1..(k - 1) :
                FieldValue(a, keys[j].name) = FieldValue(b, keys[j].name)
          /\ IF keys[k].direction = "desc"
               THEN FieldValue(a, keys[k].name) > FieldValue(b, keys[k].name)
             ELSE FieldValue(a, keys[k].name) < FieldValue(b, keys[k].name)

Priorities(todos) == [i \in DOMAIN todos |-> todos[i].priority]

\* the todos with priorities 1, 5, 3 are stored and are searched for with
\* nothing but a sort
SortExample(p, sort) ==
    /\ SearchReturned(p)
    /\ cur[p].params = [NoParams EXCEPT !.sort = Some(sort)]
    /\ DOMAIN store = 1..3
    /\ Priorities(store) = <<1, 5, 3>>

\* C19: the items of a search come ordered by the known fields of the sort
\* string in listed order, '-' meaning descending, later fields breaking
\* ties, and by created_at descending when the sort is absent or empty;
\* priorities 1, 5, 3 come as 5, 3, 1 under -priority and as 1, 3, 5 under
\* priority.
C19_SortSemantics ==
    \A p \in Requests :
        /\ SearchReturned(p) =>
              \A i, j \in DOMAIN res[p].items :
                  i < j => InOrder(res[p].items[i], res[p].items[j],
                                   SortMeaning(cur[p].params.sort))
        /\ SortExample(p, (<<"-">> \o col.priority)) =>
              Priorities(res[p].items) = <<5, 3, 1>>
        /\ SortExample(p, col.priority) =>
              Priorities(res[p].items) = <<1, 3, 5>>

C19_Witness ==
    /\ SortExample("caller", (<<"-">> \o col.priority))
    /\ Priorities(res["caller"].items) = <<5, 3, 1>>

\* the sort strings with a field that is no Todo column, and the same
\* strings without that field
WithoutUnknown(sort) ==
    CASE sort = <<"b", "o", "g", "u", "s">> -> <<>>
      [] sort = (<<"b", "o", "g", "u", "s", ",", "-">> \o col.priority) -> (<<"-">> \o col.priority)
      [] sort = <<"-">> -> <<>>
      [] sort = (<<",">> \o col.priority) -> col.priority
      [] sort = attr.to_entity -> <<>>
      [] sort = (col.priority \o <<",", "-">> \o attr.to_entity) -> col.priority

UnknownSorts ==
    {<<"b", "o", "g", "u", "s">>, (<<"b", "o", "g", "u", "s", ",", "-">> \o col.priority), <<"-">>,
     (<<",">> \o col.priority), attr.to_entity, (col.priority \o <<",", "-">> \o attr.to_entity)}

\* C20: a search whose sort string names a field that is no Todo column
\* does not fail, and what it returns is what the search returns for the
\* sort string without that field.
C20_UnknownSortFieldIsIgnored ==
    \A p \in Requests :
        (pc[p] = "done" /\ cur[p].op = "search_todos"
         /\ cur[p].params.sort # None
         /\ cur[p].params.sort[1] \in UnknownSorts) =>
            /\ res[p].kind = "search"
            /\ res[p] \in search(store,
                   params_of([cur[p] EXCEPT !.params.sort =
                       Some(WithoutUnknown(cur[p].params.sort[1]))]))

(***************************************************************************)
(* Properties of the pages.                                                *)
(***************************************************************************)
\* p runs a search whose parameters have been built
Searching(p) ==
    pc[p] \in {"counted", "done"} /\ cur[p].op = "search_todos"

\* the page and the page size that a search has to use for the given ones
NormalPage(page) == IF page < 1 THEN 1 ELSE page
NormalPageSize(page_size) ==
    IF page_size < 1 THEN 1 ELSE IF page_size > 100 THEN 100 ELSE page_size

\* C22: the parameters of a search hold page = max(1, page) and
\* page_size = min(max(1, page_size), 100) of the given values, 1 and 20
\* when none is given, and an offset of (page - 1) * page_size of the
\* normalized values, which is not negative; the result reports them.
C22_ParamsAreNormalized ==
    \A p \in Requests :
        Searching(p) =>
            LET args == cur[p].params
                params == params_of(cur[p])
            IN  /\ params.page = NormalPage(args.page)
                /\ params.page_size = NormalPageSize(args.page_size)
                /\ params.page >= 1
                /\ params.page_size >= 1 /\ params.page_size <= 100
                /\ args = NoParams => params.page = 1 /\ params.page_size = 20
                /\ offset(params) =
                      (NormalPage(args.page) - 1) * NormalPageSize(args.page_size)
                /\ offset(params) >= 0
                /\ SearchReturned(p) =>
                      /\ res[p].page = NormalPage(args.page)
                      /\ res[p].page_size = NormalPageSize(args.page_size)

C22_Witness ==
    /\ SearchReturned("caller")
    /\ cur["caller"].params.page < 1
    /\ cur["caller"].params.page_size < 0
    /\ res["caller"].page = 1
    /\ res["caller"].page_size = 1
    /\ Len(res["caller"].items) = 1

\* the ids of the stored todos that satisfy the filters of args, as the
\* list sorted by the sort of args; todos that the sort does not tell apart
\* come in the order of their ids
SortedFiltered(args) ==
    LET ids == {id \in DOMAIN store : Satisfies(store[id], args)}
        keys == SortMeaning(args.sort)
        before(a, b) ==
            /\ a # b
            /\ InOrder(store[a], store[b], keys)
            /\ InOrder(store[b], store[a], keys) => a < b
    IN  [k \in 1..Cardinality(ids) |->
            CHOOSE i \in ids : Cardinality({j \in ids : before(j, i)}) = k - 1]

\* the positions (page - 1) * s + 1 .. (page - 1) * s + s of list
PageOf(list, page, s) ==
    SubSeq(list, (page - 1) * s + 1, Min((page - 1) * s + s, Len(list)))

ItemIds(result) == [i \in DOMAIN result.items |-> result.items[i].id[1]]

\* result is the page of the sorted filtered list
IsPage(result, args, page, s) ==
    /\ result.kind = "search"
    /\ ItemIds(result) = PageOf(SortedFiltered(args), page, s)
    /\ Len(result.items) =
          Min(s, Max({0, result.total_items - (page - 1) * s}))

\* C21: a search returns the items at positions (p - 1) * s .. (p - 1) * s
\* + s - 1 of the sorted filtered list, which are min(s, max(0, total_items
\* - (p - 1) * s)) items; on the same store every page 1..total_pages is
\* its own part of that list, so the pages are disjoint and hold every
\* matching todo once; of 5 todos page 1 of size 2 holds 2, with
\* total_items 5 and total_pages 3.
C21_Pagination ==
    \A p \in Requests :
        (pc[p] = "done" /\ cur[p].op = "search_todos") =>
            LET args == cur[p].params
                page == NormalPage(args.page)
                s == NormalPageSize(args.page_size)
            IN  /\ IsPage(res[p], args, page, s)
                /\ \A q \in 1..total_pages(res[p]) :
                      \A r \in search(store,
                                      [params_of(cur[p]) EXCEPT !.page = q]) :
                          IsPage(r, args, q, s)
                /\ (Cardinality(DOMAIN store) = 5 /\ args.is_done = None
                    /\ page = 1 /\ s = 2) =>
                      /\ Len(res[p].items) = 2
                      /\ res[p].total_items = 5
                      /\ total_pages(res[p]) = 3

\* C24: the items of a search are as many as its total_items leave for its
\* page: min(page_size, max(0, total_items - offset)), also when another
\* request deletes a matching todo while the search runs.
C24_CountAndPageAreConsistent ==
    \A p \in Requests :
        SearchReturned(p) =>
            Len(res[p].items) =
                Min(res[p].page_size,
                    Max({0, res[p].total_items
                               - (res[p].page - 1) * res[p].page_size}))

\* C27: delete_todo on a stored id returns true, removes that todo and
\* leaves every other stored todo as it is, after which get_todo_by_id finds
\* nothing under the id and a second delete_todo returns false; delete_todo
\* on an id that is not stored returns false and leaves storage as it is.
C27_DeleteSemantics ==
    [][\A p \in Requests :
         /\ (Completes(p) /\ cur'[p].op = "delete_todo") =>
               LET id == cur'[p].todo_id
               IN  /\ res'[p].kind = "bool"
                   /\ res'[p].flag = (id \in DOMAIN store)
                   /\ DOMAIN store' = DOMAIN store \ {id}
                   /\ \A j \in DOMAIN store' : store'[j] = store[j]
                   /\ get_by_id(store', id).kind = "none"
         /\ (Completes(p) /\ cur'[p].op = "get_todo_by_id"
             /\ cur'[p].todo_id \notin DOMAIN store) =>
               res'[p].kind = "none"]_vars

C27_Witness ==
    /\ pc["caller"] = "done"
    /\ cur["caller"].op = "delete_todo"
    /\ res["caller"].flag
    /\ cur["caller"].todo_id \notin DOMAIN store
    /\ DOMAIN store # {}

\* the fields a client sets
ClientFields(r) ==
    <<r.title, r.description, r.is_done, r.priority, r.due_date, r.tags>>

\* C25: the fetch and the persist of a call are two steps, and the persist
\* stores the fields computed from the todo its own fetch returned, whatever
\* has been stored under the id since then; so when two calls on one id both
\* fetch before either persists, storage holds the change of the later
\* persist only, and both calls return the todo they stored.
C25_LastPersistWins ==
    [][\A p \in Requests :
         (pc[p] = "fetched" /\ pc'[p] = "done" /\ res'[p].kind = "todo") =>
           /\ cur[p].todo_id \in DOMAIN store'
           /\ \E utcnow \in Ticks(now) :
                LET updated_todo == Transition(cur[p], held[p], utcnow)
                IN  /\ updated_todo.ok
                    /\ ClientFields(store'[cur[p].todo_id])
                         = ClientFields(updated_todo.todo)
                    /\ ClientFields(res'[p].todo)
                         = ClientFields(updated_todo.todo)]_vars

\* both add_tag_to_todo calls on one id have returned a todo, and the tag of
\* one of them is not stored
C25_Witness ==
    /\ \A p \in Requests :
         /\ pc[p] = "done"
         /\ cur[p].op = "add_tag_to_todo"
         /\ res[p].kind = "todo"
    /\ cur["caller"].todo_id = cur["other"].todo_id
    /\ cur["caller"].tag # cur["other"].tag
    /\ cur["caller"].todo_id \in DOMAIN store
    /\ \E p \in Requests :
         /\ store[cur[p].todo_id].tags = <<cur[p].tag>>
         /\ res[p].todo.tags = <<cur[p].tag>>

\* C26: each request has an id of its own.  A call on one id changes no row
\* of another id, and the todo a call fetched is still the stored row when
\* the call persists, so every interleaving leaves the rows as the calls
\* run one after the other leave them.
C26_DifferentIdsAreIndependent ==
    [][\A p \in Requests :
         /\ (pc'[p] # pc[p] /\ cur'[p].op \in FetchOps \cup {"delete_todo"}) =>
               \A j \in DOMAIN store \ {cur'[p].todo_id} :
                   j \in DOMAIN store' /\ store'[j] = store[j]
         /\ (pc[p] = "fetched" /\ pc'[p] = "done") =>
               /\ cur[p].todo_id \in DOMAIN store
               /\ Ok(held[p]) = to_entity(store[cur[p].todo_id])]_vars

\* the caller has stored a tag on its todo while the other request is
\* between its fetch and its persist of the other todo
C26_Witness ==
    /\ pc["caller"] = "done"
    /\ cur["caller"].op = "add_tag_to_todo"
    /\ res["caller"].kind = "todo"
    /\ pc["other"] = "fetched"
    /\ cur["other"].todo_id # cur["caller"].todo_id
    /\ store[cur["caller"].todo_id].tags = <<cur["caller"].tag>>
    /\ store[cur["other"].todo_id].updated_at
         # store[cur["caller"].todo_id].updated_at

\* C28: a GET, PATCH or DELETE request for an id that is not stored is
\* answered with status 404 and a body whose top-level key "error" holds
\* the code "NOT_FOUND".
C28_AbsentIdIs404 ==
    [][\A p \in Requests :
         (pc[p] = "idle" /\ cur'[p].route \in {"GET", "PATCH", "DELETE"}
          /\ cur'[p].todo_id \notin DOMAIN store) =>
           /\ pc'[p] = "done"
           /\ res'[p].status = 404
           /\ "error" \in DOMAIN res'[p].body
           /\ res'[p].body.error.code = "NOT_FOUND"]_vars

\* C29: a PUT answered with 200 for a stored todo leaves every field a
\* client sets equal to the field of the body, or to its default when the
\* body leaves it out: null for description and due_date.
C29_PutReplacesEveryField ==
    [][\A p \in Requests :
         (Completes(p) /\ cur'[p].route = "PUT" /\ cur'[p].op = "update_todo"
          /\ res'[p].status = 200) =>
           /\ cur'[p].todo_id \in DOMAIN store'
           /\ LET body == cur'[p].args
                  row == store'[cur'[p].todo_id]
              IN  ClientFields(row)
                    = <<body.title[1], body.description, body.is_done[1],
                        body.priority[1], body.due_date, body.tags[1]>>]_vars

\* the stored todos that a count aggregate counts
Counted(op) ==
    CASE op = "get_todos_count" -> DOMAIN store
      [] op = "get_done_todos_count" ->
           {id \in DOMAIN store : store[id].is_done}
      [] op = "get_pending_todos_count" ->
           {id \in DOMAIN store : ~store[id].is_done}

\* C30: with no write between the calls, get_todos_count returns the number
\* of stored todos, get_done_todos_count and get_pending_todos_count the
\* numbers of those with is_done true and false, so the first is the sum of
\* the other two.
C30_CountsPartitionTheStore ==
    \A p \in Requests :
        (pc[p] = "done"
         /\ cur[p].op \in {"get_todos_count", "get_done_todos_count",
                           "get_pending_todos_count"}) =>
            /\ res[p].kind = "count"
            /\ res[p].total_items = Cardinality(Counted(cur[p].op))

\* the least number of pages of page_size items that hold total_items items
Ceil(total_items, page_size) ==
    CHOOSE n \in 0..total_items :
        /\ n * page_size >= total_items
        /\ \A m \in 0..(n - 1) : m * page_size < total_items

\* C23: total_pages of a result is ceil(total_items / page_size) when
\* page_size >= 1, so it is 0 exactly when total_items is 0, and it is 0
\* when page_size is 0.
C23_TotalPages ==
    \A p \in Requests :
        res[p].kind = "search" =>
            /\ res[p].page_size >= 1 =>
                  /\ total_pages(res[p]) =
                        Ceil(res[p].total_items, res[p].page_size)
                  /\ total_pages(res[p]) = 0 <=> res[p].total_items = 0
            /\ res[p].page_size = 0 => total_pages(res[p]) = 0

C23_Witness ==
    /\ res["caller"].kind = "search"
    /\ res["caller"].total_items = 5
    /\ res["caller"].page_size = 2
    /\ total_pages(res["caller"]) = 3

====
